---- MODULE Spec2Model ----
(***************************************************************************)
(* A model of termgraph's layout pipeline: DirectedGraph::to_acyclic       *)
(* (Tarjan's SCCs and the cycle-breaking loop), transitive_reduction,      *)
(* topological_sort, the level assignment (assign_levels of display and    *)
(* GraphLevels::distribute_nodes) and Grid::construct.                     *)
(*                                                                         *)
(* Hash maps and hash sets are modelled together with their iteration      *)
(* order: std's RandomState seeds every freshly built map differently, so  *)
(* the order in which a map or set is walked is a nondeterministic choice  *)
(* made when the map is built, and kept for as long as it is not rebuilt.  *)
(***************************************************************************)
EXTENDS Integers, Sequences, FiniteSets, TLC

\* ------------------------------------------------------------------ bounds

\* The graphs that are enumerated hold the ids 1..n for some n <= MaxNodes.
MaxNodes == 3
\* The largest size of an input graph: its nodes and its edges together.
MaxSize == 7

\* The ids of the enumerated graphs, and those of every graph: the graphs
\* given by name hold one node more.
SmallIds == 1..MaxNodes

Ids == 1..(MaxNodes + 1)

\* The cycle-breaking loop is followed for at most this many reversals.
MaxReversals == 6

\* The capacity of the reachability worklist: a Vec that outgrows the memory
\* aborts the process.  An acyclic graph never needs more than one slot per
\* node and one per edge.
StackCap == MaxSize + 2

\* ------------------------------------------------------------------ helpers

Range(s) == {s[i] : i \in DOMAIN s}

Min(a, b) == IF a <= b THEN a ELSE b

Max(a, b) == IF a >= b THEN a ELSE b

\* Every order in which a hash set holding S may be walked.
Perms(S) ==
    {s \in [1..Cardinality(S) -> S] : \A i, j \in 1..Cardinality(S) : s[i] = s[j] => i = j}

\* The sequence s without its element x (HashSet::remove keeps the others in place).
Without(s, x) == SelectSeq(s, LAMBDA y : y # x)

\* The sequence left in the order it has.
unreversed(s) == s

Reverse(s) == [i \in 1..Len(s) |-> s[Len(s) + 1 - i]]

\* Option::None of NodeData.index and NodeData.lowlink.
None == -1

\* let x = v; F(x): the value v is computed once and F reads the result.
Bind(v, F(_)) == CHOOSE r \in {F(x) : x \in {v}} : TRUE

VARIABLES
    nodes,          \* DirectedGraph.nodes: id -> value (the length of the value's text)
    edges,          \* DirectedGraph.edges: source id -> set of target ids
    config,         \* Config: max_per_layer, max_glyphs_per_layer, vertical_edge_spacing
    node_names,     \* id -> length of the formatted label
    pc,             \* the stage of the pipeline that runs next
    anodes,         \* to_acyclic's anodes, as the order its keys are walked in
    aedges,         \* to_acyclic's aedges: source id -> its targets in walking order
    reversed_edges, \* the Vec of reversed edges, in original direction
    reduced,        \* the edges of the MinimalAcyclicDirectedGraph: source -> set
    ordering,       \* the result of topological_sort
    levels,         \* the levels of the level assignment, top to bottom
    previous,       \* what the render before this one produced, if there was one
    ilevels,        \* Grid::generate_levels: the levels with their dummies
    horizontals,    \* Grid::generate_horizontals: the connectors of every gap
    grid,           \* InnerGrid.inner: the rows of entries, top to bottom
    fault,          \* the panic that ended Grid::construct, if one did
    stdout,         \* the lines display has printed, in order
    ys_call,        \* a determine_ys call: the row it starts from and what it returns
    inserted,       \* for every id ever given to add_nodes, the value it came with last
    added,          \* every (from, to) pair ever given to add_edges
    scc_result,     \* what a call of tarjan::sccs returned
    sequence,       \* the vertex sequence of a feedback_arc_set::calulate call
    feedback        \* the Vec of edges that call returned

\* The graph and the configuration: what a render reads and never writes.
input == <<nodes, edges, config, node_names, inserted, added>>

\* What Grid::construct and Grid::display write.
picture == <<ilevels, horizontals, grid, fault, stdout, ys_call>>

\* What the calls of tarjan::sccs and feedback_arc_set::calulate on their own
\* return.
analysis == <<scc_result, sequence, feedback>>

vars == <<nodes, edges, config, node_names, pc, anodes, aedges, reversed_edges,
          reduced, ordering, levels, previous, ilevels, horizontals, grid, fault,
          stdout, ys_call, inserted, added, scc_result, sequence, feedback>>

\* ------------------------------------------------------------------ graph

\* The set of edges (from, to) held by an adjacency of sets.
EdgeSet(E) == UNION {{<<from, t>> : t \in E[from]} : from \in DOMAIN E}

\* The set of edges (from, to) held by an adjacency of walking orders.
OrderedEdgeSet(E) == UNION {{<<from, t>> : t \in Range(E[from])} : from \in DOMAIN E}

\* The adjacency holding exactly the edges of S: one key per source.
Adjacency(S) == [f \in {p[1] : p \in S} |-> {p[2] : p \in {q \in S : q[1] = f}}]

\* HashMap::get(..).cloned().unwrap_or_default() on an adjacency of walking orders.
successors(E, id) == IF id \in DOMAIN E THEN E[id] ELSE <<>>

\* ------------------------------------------------------------------ building

\* The longest iterator handed to one add_nodes or add_edges call.
MaxBatch == 2

\* The ids handed to add_nodes, the values they come with, and the ids handed
\* to add_edges as endpoints: one of them is never a node.
NodeIds == {1, 2}

Values == {1, 2}

EndIds == {1, 2, 3}

\* The iterators of at most MaxBatch items over S.
Batches(S) == UNION {[1..k -> S] : k \in 0..MaxBatch}

\* self.nodes.insert(id, e): the value of the key is replaced.
insert_node(N, id, e) == [x \in DOMAIN N \cup {id} |-> IF x = id THEN e ELSE N[x]]

\* The body of add_edges with the set of the source overwritten.
replace_targets(E, from, to) == [f \in DOMAIN E \cup {from} |-> IF f = from THEN {to} ELSE E[f]]

\* self.edges.entry(from).or_insert_with(HashSet::new).insert(to)
insert_edge(E, from, to) ==
    [f \in DOMAIN E \cup {from} |->
        IF f = from THEN (IF from \in DOMAIN E THEN E[from] ELSE {}) \cup {to} ELSE E[f]]

\* The for loop of add_nodes from item i of the iterator on.
RECURSIVE add_nodes_from(_, _, _)
add_nodes_from(N, iter, i) ==
    IF i > Len(iter) THEN N
    ELSE add_nodes_from(insert_node(N, iter[i][1], iter[i][2]), iter, i + 1)

\* The for loop of add_edges from item i of the iterator on.
RECURSIVE add_edges_from(_, _, _)
add_edges_from(E, iter, i) ==
    IF i > Len(iter) THEN E
    ELSE add_edges_from(insert_edge(E, iter[i][1], iter[i][2]), iter, i + 1)

\* DirectedGraph::add_nodes. The history keeps, for every id of the iterator,
\* the value of its last item.
add_nodes ==
    /\ pc = "build"
    /\ \E iter \in Batches(NodeIds \X Values) :
          /\ nodes' = add_nodes_from(nodes, iter, 1)
          /\ inserted' = [id \in DOMAIN inserted \cup {iter[i][1] : i \in DOMAIN iter} |->
                            IF \E i \in DOMAIN iter : iter[i][1] = id
                            THEN iter[CHOOSE i \in DOMAIN iter :
                                         /\ iter[i][1] = id
                                         /\ \A j \in DOMAIN iter : iter[j][1] = id => j <= i][2]
                            ELSE inserted[id]]
    /\ UNCHANGED <<analysis, edges, added, config, node_names, pc, anodes, aedges, reversed_edges,
                   reduced, ordering, levels, previous, picture>>

\* DirectedGraph::add_edges. The history keeps every pair of the iterator.
add_edges ==
    /\ pc = "build"
    /\ \E iter \in Batches(EndIds \X EndIds) :
          /\ edges' = add_edges_from(edges, iter, 1)
          /\ added' = added \cup Range(iter)
    /\ UNCHANGED <<analysis, nodes, inserted, config, node_names, pc, anodes, aedges, reversed_edges,
                   reduced, ordering, levels, previous, picture>>

\* ------------------------------------------------------------------ tarjan.rs

\* The bookkeeping of one sccs call before any node is visited.
sccs_init(N) ==
    [index   |-> [n \in Range(N) |-> None],
     lowlink |-> [n \in Range(N) |-> None],
     onstack |-> [n \in Range(N) |-> FALSE],
     stack   |-> <<>>,
     next    |-> 0,
     result  |-> <<>>]

\* A pop that does not stop at node: the whole stack becomes one component.
pop_all(node, st, scc) ==
    [st EXCEPT !.stack = <<>>,
               !.onstack = [n \in DOMAIN st.onstack |-> FALSE],
               !.result = Append(@, scc \o Reverse(st.stack))]

\* The loop that pops the stack down to node, collecting the component in
\* popping order: node itself comes last.
RECURSIVE pop_scc(_, _, _)
pop_scc(node, st, scc) ==
    Bind(st.stack[Len(st.stack)], LAMBDA w_id :
    Bind([st EXCEPT !.stack = SubSeq(@, 1, Len(@) - 1),
                    !.onstack[w_id] = FALSE], LAMBDA st1 :
    Bind(Append(scc, w_id), LAMBDA scc1 :
        IF node = w_id
        THEN [st1 EXCEPT !.result = Append(@, scc1)]
        ELSE pop_scc(node, st1, scc1))))

\* A visit that looks at no successor: node is a component of its own.
own_component(node, E, st) ==
    [st EXCEPT !.index[node] = st.next,
               !.lowlink[node] = st.next,
               !.next = @ + 1,
               !.result = Append(@, <<node>>)]

RECURSIVE strongconnect(_, _, _)
RECURSIVE visit_succs(_, _, _, _)

\* The loop of strongconnect over the successors of node, from the i-th on.
visit_succs(node, i, E, st) ==
    IF i > Len(successors(E, node)) THEN st
    ELSE Bind(successors(E, node)[i], LAMBDA succ_id :
         IF succ_id \notin DOMAIN st.index
         THEN visit_succs(node, i + 1, E, st)
         ELSE IF st.index[succ_id] = None
         THEN Bind(strongconnect(succ_id, E, st), LAMBDA st1 :
              Bind([st1 EXCEPT !.lowlink[node] = Min(@, st1.lowlink[succ_id])], LAMBDA st2 :
                  visit_succs(node, i + 1, E, st2)))
         ELSE IF st.onstack[succ_id]
         THEN Bind([st EXCEPT !.lowlink[node] = Min(@, st.index[succ_id])], LAMBDA st1 :
                  visit_succs(node, i + 1, E, st1))
         ELSE visit_succs(node, i + 1, E, st))

strongconnect(node, E, st) ==
    Bind([st EXCEPT !.index[node] = st.next,
                    !.lowlink[node] = st.next,
                    !.next = @ + 1,
                    !.stack = Append(@, node),
                    !.onstack[node] = TRUE], LAMBDA st1 :
    Bind(visit_succs(node, 1, E, st1), LAMBDA st2 :
        IF st2.lowlink[node] = st2.index[node]
        THEN pop_scc(node, st2, <<>>)
        ELSE st2))

\* The loop of sccs over the keys of the node map, from the i-th on.
RECURSIVE sccs_from(_, _, _, _)
sccs_from(i, N, E, st) ==
    IF i > Len(N) THEN st
    ELSE IF st.index[N[i]] = None
         THEN Bind(strongconnect(N[i], E, st), LAMBDA st1 : sccs_from(i + 1, N, E, st1))
         ELSE sccs_from(i + 1, N, E, st)

\* The strongly connected components of the graph with the node keys walked in
\* the order N and the adjacency E, in the order they are found.
sccs(N, E) == Bind(sccs_init(N), LAMBDA st : sccs_from(1, N, E, st).result)

\* ------------------------------------------------------------------ graph.rs

all_single(components) == \A i \in DOMAIN components : Len(components[i]) = 1

\* Whether find(|s| s.len() > 1) finds a component.
has_scc(components) == \E i \in DOMAIN components : Len(components[i]) > 1

\* The first component with more than one vertex.
first_scc(components) ==
    components[CHOOSE i \in DOMAIN components :
                 /\ Len(components[i]) > 1
                 /\ \A j \in 1..(i - 1) : Len(components[j]) <= 1]

\* The component's first entry taken in place of its last.
front_part(scc) == scc[1]

\* first_scc.pop(): the component's last entry.
last_part(scc) == scc[Len(scc)]

\* The first remaining vertex of the component that last_part has an edge to.
\* Its absence is the expect() that fails.
has_first_part(scc, E) ==
    \E i \in 1..(Len(scc) - 1) : scc[i] \in Range(successors(E, last_part(scc)))

first_part(scc, E) ==
    scc[CHOOSE i \in 1..(Len(scc) - 1) :
          /\ scc[i] \in Range(successors(E, last_part(scc)))
          /\ \A j \in 1..(i - 1) : scc[j] \notin Range(successors(E, last_part(scc)))]

\* Every walking order of an adjacency of sets: one order per key.
Orderings(E) ==
    {A \in [DOMAIN E -> UNION {Perms(E[k]) : k \in DOMAIN E}] :
        \A k \in DOMAIN E : A[k] \in Perms(E[k])}

\* to_acyclic up to its first return: anodes and aedges are collected into
\* fresh maps, and a graph whose components are all single is returned as it is.
ToAcyclic ==
    /\ pc = "to_acyclic"
    /\ \E N \in Perms(DOMAIN nodes), A \in Orderings(edges) :
          /\ anodes' = N
          /\ aedges' = A
          /\ pc' = IF all_single(sccs(N, A)) THEN "levels" ELSE "break_cycles"
    /\ reversed_edges' = <<>>
    /\ UNCHANGED <<analysis, input, reduced, ordering, levels, previous, picture>>

\* Neither the remove nor the insert: the edge stays as it was.
leave_edge(E, last, first, O) == E

\* The insert without the remove: the edge is kept in both directions.
insert_only(E, last, first, O) == [E EXCEPT ![first] = O]

\* The adjacency after last_targets.remove(first) and first_targets.insert(last),
\* with the targets of first walked in the order O afterwards.
reverse_edge(E, last, first, O) ==
    [E EXCEPT ![last] = Without(@, first), ![first] = O]

\* The orders in which the targets of first may be walked after the insert.
\* HashSet::insert reserves room for one more entry before it looks the value
\* up, so the set may be rehashed whether or not it holds last already.
insert_orders(E, last, first) == Perms(Range(E[first]) \cup {last})

\* One turn of the cycle-breaking loop that finds a component to break.
BreakCycle ==
    /\ pc = "break_cycles"
    /\ Len(reversed_edges) < MaxReversals
    /\ \E current_sccs \in {sccs(anodes, aedges)} :
         /\ ~all_single(current_sccs)
         /\ IF has_scc(current_sccs) /\ has_first_part(first_scc(current_sccs), aedges)
            THEN \E last \in {last_part(first_scc(current_sccs))},
                    first \in {first_part(first_scc(current_sccs), aedges)} :
                    IF last \in DOMAIN aedges /\ first \in DOMAIN aedges
                    THEN /\ \E O \in insert_orders(aedges, last, first) :
                              aedges' = reverse_edge(aedges, last, first, O)
                         /\ reversed_edges' = Append(reversed_edges, <<last, first>>)
                         /\ pc' = pc
                    ELSE /\ pc' = "panic"
                         /\ UNCHANGED <<aedges, reversed_edges>>
            ELSE /\ pc' = "panic"
                 /\ UNCHANGED <<aedges, reversed_edges>>
    /\ UNCHANGED <<analysis, input, anodes, reduced, ordering, levels, previous, picture>>

\* The turn of the cycle-breaking loop that finds every component single: break.
BreakDone ==
    /\ pc = "break_cycles"
    /\ all_single(sccs(anodes, aedges))
    /\ pc' = "levels"
    /\ UNCHANGED <<analysis, input, anodes, aedges, reversed_edges, reduced, ordering, levels,
                   previous, picture>>

\* ------------------------------------------------------------------ acyclic.rs

\* The inner worklist loop of transitive_reduction: stack is the Vec, reachable
\* the map built so far.  A stack that outgrows StackCap exhausts the memory.
RECURSIVE reach_worklist(_, _, _)
reach_worklist(stack, reachable, E) ==
    IF stack = <<>> THEN [ok |-> TRUE, map |-> reachable]
    ELSE IF Len(stack) > StackCap THEN [ok |-> FALSE, map |-> reachable]
    ELSE LET id    == stack[Len(stack)]
             rest  == SubSeq(stack, 1, Len(stack) - 1)
             succs == successors(E, id)
         IN  IF id \in DOMAIN reachable
             THEN reach_worklist(rest, reachable, E)
             ELSE IF succs = <<>>
             THEN reach_worklist(rest, (id :> {}) @@ reachable, E)
             ELSE IF \A s \in Range(succs) : s \in DOMAIN reachable
             THEN reach_worklist(rest,
                      (id :> (UNION {reachable[s] : s \in Range(succs)} \cup Range(succs)))
                          @@ reachable, E)
             ELSE reach_worklist(rest \o <<id>> \o succs, reachable, E)

\* The outer loop of the reachability computation over the node keys, from the
\* i-th on.
RECURSIVE reach_from(_, _, _, _)
reach_from(i, N, E, r) ==
    IF i > Len(N) \/ ~r.ok THEN r
    ELSE IF N[i] \in DOMAIN r.map
         THEN reach_from(i + 1, N, E, r)
         ELSE reach_from(i + 1, N, E, reach_worklist(<<N[i]>>, r.map, E))

\* The reachable map of transitive_reduction.
reachable_map(N, E) == reach_from(1, N, E, [ok |-> TRUE, map |-> <<>>])

\* A reduction that removes no edge.
remove_none(node, E, reachable) == {}

\* A reduction that removes every edge.
remove_all(node, E, reachable) == Range(successors(E, node))

\* The targets of node that transitive_reduction removes: those found in the
\* reachable set of some target of node.
remove_edges(node, E, reachable) ==
    LET targets     == Range(successors(E, node))
        succ_reachs == UNION {reachable[t] : t \in targets}
        unique      == {t \in targets : t \notin succ_reachs}
    IN  targets \ unique

\* n_edges: every key of the adjacency with the targets that are kept.  The
\* removals are recorded per node, so remove_edges.get(from).expect("") panics
\* for a key of the adjacency that is not a node.
n_edges(N, E, reachable) ==
    IF DOMAIN E \subseteq Range(N)
    THEN [ok |-> TRUE,
          edges |-> [from \in DOMAIN E |->
                        {t \in Range(E[from]) : t \notin remove_edges(from, E, reachable)}]]
    ELSE [ok |-> FALSE, edges |-> <<>>]

\* AcyclicDirectedGraph::transitive_reduction: the edges of the minimal graph,
\* unless the worklist exhausts the memory ("exhausted") or an expect fails
\* ("panic").
transitive_reduction(N, E) ==
    LET r == reachable_map(N, E)
    IN  IF ~r.ok THEN [ok |-> FALSE, end |-> "exhausted", edges |-> <<>>]
        ELSE LET n == n_edges(N, E, r.map)
             IN  [ok |-> n.ok, end |-> IF n.ok THEN "" ELSE "panic", edges |-> n.edges]

\* incoming_mapping: every node and every edge target with the set of its sources.
incoming_mapping(N, M) ==
    [t \in Range(N) \cup UNION {M[from] : from \in DOMAIN M} |->
        {from \in DOMAIN M : t \in M[from]}]

\* The position in ordering of the first entry that is in the set preds, or None.
first_index(ord, preds) ==
    IF \E i \in DOMAIN ord : ord[i] \in preds
    THEN CHOOSE i \in DOMAIN ord : ord[i] \in preds /\ \A j \in 1..(i - 1) : ord[j] \notin preds
    ELSE None

\* A filter that lets every entry through.
unfiltered(left, ord, incoming) == left

\* The entries of left (positions in the Vec nodes) whose incoming edges all
\* come from ordered nodes.
potential(left, ord, incoming) ==
    SelectSeq(left, LAMBDA id : incoming[id] \subseteq Range(ord))

\* The first potential entry, unsorted.
take_first(pot, ord, incoming) == pot[1]

\* The entry the stable sort_by puts first: the first one of the smallest key.
sort_first(pot, ord, incoming) ==
    pot[CHOOSE i \in DOMAIN pot :
          /\ \A j \in DOMAIN pot :
                first_index(ord, incoming[pot[i]]) <= first_index(ord, incoming[pot[j]])
          /\ \A j \in 1..(i - 1) :
                first_index(ord, incoming[pot[j]]) > first_index(ord, incoming[pot[i]])]

\* The while loop of topological_sort.  No potential entry makes
\* potential.remove(0) panic.
RECURSIVE topsort_loop(_, _, _)
topsort_loop(left, ord, incoming) ==
    IF left = <<>> THEN [ok |-> TRUE, ordering |-> ord]
    ELSE LET pot == potential(left, ord, incoming) IN
         IF pot = <<>> THEN [ok |-> FALSE, ordering |-> ord]
         ELSE LET entry == IF Len(pot) = 1 THEN pot[1] ELSE sort_first(pot, ord, incoming)
              IN  topsort_loop(Without(left, entry), Append(ord, entry), incoming)

\* MinimalAcyclicDirectedGraph::topological_sort: N is the order of the node keys.
topological_sort(N, M) == topsort_loop(N, <<>>, incoming_mapping(N, M))

\* ------------------------------------------------------------------ levels.rs

\* node_names.get(id).map(|name| name.len()).unwrap_or(0)
name_len(names, id) == IF id \in DOMAIN names THEN names[id] ELSE 0

\* usize::saturating_sub
saturating_sub(a, b) == IF a >= b THEN a - b ELSE 0

RECURSIVE sum_seq(_)
sum_seq(s) == IF s = <<>> THEN 0 ELSE s[1] + sum_seq(Tail(s))

\* The glyphs a level takes: every label and its two borders.
glyph_width_of(level, names) == sum_seq([i \in DOMAIN level |-> name_len(names, level[i]) + 2])

\* The set of the values of a function's range that are wanted: a maximum of it.
max_of(S) == CHOOSE m \in S : \A x \in S : x <= m

\* The level of the highest successor itself, without the step above it.
level_of_successor(v, M, vertex_levels) ==
    IF v \in DOMAIN M /\ M[v] # {}
    THEN max_of({IF id \in DOMAIN vertex_levels THEN vertex_levels[id] ELSE 0 : id \in M[v]})
    ELSE 0

\* The level a vertex is tried at first: one above its highest successor.
initial_level(v, M, vertex_levels) ==
    IF v \in DOMAIN M /\ M[v] # {}
    THEN max_of({IF id \in DOMAIN vertex_levels THEN vertex_levels[id] ELSE 0 : id \in M[v]}) + 1
    ELSE 0

\* levels.extend(..): at least v_level + 1 levels.
extend_levels(lv, v_level) ==
    lv \o [i \in 1..saturating_sub(v_level + 1, Len(lv)) |-> <<>>]

\* The refusal with the node count compared by > in place of >=.
refuses_late(level, v, cfg, names) ==
    \/ Len(level) > cfg.max_per_layer
    \/ glyph_width_of(level, names) >=
          saturating_sub(cfg.max_glyphs_per_layer, name_len(names, v) + 3)

\* Whether the level refuses the vertex v: it is full, or too wide with v.
level_refuses(level, v, cfg, names) ==
    \/ Len(level) >= cfg.max_per_layer
    \/ glyph_width_of(level, names) >=
          saturating_sub(cfg.max_glyphs_per_layer, name_len(names, v) + 3)

\* The loop over v_level for one vertex.  A fresh level that refuses the vertex
\* is followed by fresh levels only, which refuse it as well: the loop never
\* places the vertex.
RECURSIVE place_vertex(_, _, _, _, _)
place_vertex(v, v_level, lv, cfg, names) ==
    LET fresh == v_level >= Len(lv)
        lv1   == extend_levels(lv, v_level)
    IN  IF level_refuses(lv1[v_level + 1], v, cfg, names)
        THEN IF fresh
             THEN [ok |-> FALSE, levels |-> lv1, at |-> v_level]
             ELSE place_vertex(v, v_level + 1, lv1, cfg, names)
        ELSE [ok |-> TRUE, levels |-> [lv1 EXCEPT ![v_level + 1] = Append(@, v)],
              at |-> v_level]

\* The loop of distribute_nodes over the reversed ordering, from the i-th on.
RECURSIVE distribute_from(_, _, _, _, _, _, _)
distribute_from(i, rev, M, cfg, names, lv, vertex_levels) ==
    IF i > Len(rev) THEN [ok |-> TRUE, levels |-> lv]
    ELSE LET v == rev[i]
             r == place_vertex(v, initial_level(v, M, vertex_levels), lv, cfg, names)
         IN  IF r.ok
             THEN distribute_from(i + 1, rev, M, cfg, names, r.levels,
                                  (v :> r.at) @@ vertex_levels)
             ELSE [ok |-> FALSE, levels |-> r.levels]

\* GraphLevels::distribute_nodes: the levels from top to bottom.  A
\* max_per_layer of 0 divides by zero before the loop.
distribute_nodes(ord, M, cfg, names) ==
    IF cfg.max_per_layer = 0 THEN [ok |-> FALSE, levels |-> <<>>]
    ELSE LET r == distribute_from(1, Reverse(ord), M, cfg, names, <<>>, <<>>)
         IN  [ok |-> r.ok, levels |-> Reverse(r.levels)]

\* GraphLevels::construct: the reduction, the ordering and the distribution.
\* The worklist that outgrows the memory ends the process ("exhausted"), a
\* failed expect or a division by zero panics ("panic").  A vertex that no
\* level takes fails the debug_assert! of the glyph check in a build with debug
\* assertions ("panic"); in a build without them the loop over v_level pushes
\* one more level per turn until the memory is exhausted ("exhausted").
construct ==
    /\ pc = "levels"
    /\ \E red \in {transitive_reduction(anodes, aedges)} :
       \E ord \in {topological_sort(anodes, red.edges)} :
       \E lvs \in {distribute_nodes(ord.ordering, red.edges, config, node_names)} :
           IF ~red.ok
           THEN /\ pc' = red.end
                /\ UNCHANGED <<reduced, ordering, levels>>
           ELSE IF ~ord.ok
           THEN /\ pc' = "panic"
                /\ reduced' = red.edges
                /\ UNCHANGED <<ordering, levels>>
           ELSE IF lvs.ok
           THEN /\ pc' = "levelled"
                /\ reduced' = red.edges
                /\ ordering' = ord.ordering
                /\ levels' = lvs.levels
           ELSE /\ pc' \in IF config.max_per_layer = 0 THEN {"panic"}
                           ELSE {"panic", "exhausted"}
                /\ reduced' = red.edges
                /\ ordering' = ord.ordering
                /\ UNCHANGED levels
    /\ UNCHANGED <<analysis, input, anodes, aedges, reversed_edges, previous, picture>>

\* ------------------------------------------------------------------ lib.rs: levels

\* The loop of assign_levels over the reversed ordering, from the i-th on: a
\* vertex goes to the level one above its highest successor, and a level that
\* holds max_per_level vertices already is todo!().
RECURSIVE assign_from(_, _, _, _, _, _)
assign_from(i, rev, M, max_per_level, lv, vertex_levels) ==
    IF i > Len(rev) THEN [ok |-> TRUE, levels |-> lv]
    ELSE LET v       == rev[i]
             v_level == initial_level(v, M, vertex_levels)
             lv1     == extend_levels(lv, v_level)
         IN  IF Len(lv1[v_level + 1]) = max_per_level
             THEN [ok |-> FALSE, levels |-> lv1]
             ELSE assign_from(i + 1, rev, M, max_per_level,
                              [lv1 EXCEPT ![v_level + 1] = Append(@, v)],
                              (v :> v_level) @@ vertex_levels)

\* assign_levels: the levels from top to bottom.
assign_levels(ord, M, max_per_level) ==
    LET r == assign_from(1, Reverse(ord), M, max_per_level, <<>>, <<>>)
    IN  [ok |-> r.ok, levels |-> Reverse(r.levels)]

\* The levels of display (fn levels): the reduction, the ordering and
\* assign_levels, which reads max_per_layer only.  The todo!() of a full level
\* leaves pc at "todo".
display_levels ==
    /\ pc = "levels"
    /\ \E red \in {transitive_reduction(anodes, aedges)} :
       \E ord \in {topological_sort(anodes, red.edges)} :
       \E lvs \in {assign_levels(ord.ordering, red.edges, config.max_per_layer)} :
           IF ~red.ok
           THEN /\ pc' = red.end
                /\ UNCHANGED <<reduced, ordering, levels>>
           ELSE IF ~ord.ok
           THEN /\ pc' = "panic"
                /\ reduced' = red.edges
                /\ UNCHANGED <<ordering, levels>>
           ELSE IF lvs.ok
           THEN /\ pc' = "levelled"
                /\ reduced' = red.edges
                /\ ordering' = ord.ordering
                /\ levels' = lvs.levels
           ELSE /\ pc' = "todo"
                /\ reduced' = red.edges
                /\ ordering' = ord.ordering
                /\ UNCHANGED levels
    /\ UNCHANGED <<analysis, input, anodes, aedges, reversed_edges, previous, picture>>

\* ------------------------------------------------------------------ grid.rs: generate_levels

\* InternalNode: a user node, or a dummy of the edge src -> target.
User(id) == [kind |-> "User", d_id |-> 0, src |-> id, target |-> id]

Dummy(d_id, src, target) == [kind |-> "Dummy", d_id |-> d_id, src |-> src, target |-> target]

ReverseDummy(d_id, src, target) ==
    [kind |-> "ReverseDummy", d_id |-> d_id, src |-> src, target |-> target]

\* level.iter().any(|n| matches!(n, InternalNode::User(uid) if uid == id))
has_user(level, id) == \E i \in DOMAIN level : level[i].kind = "User" /\ level[i].src = id

\* reved_edges.iter().any(|re| re.0 == gsucc)
is_reversed_source(R, gsucc) == \E k \in DOMAIN R : R[k][1] = gsucc

\* The loop over the graph successors of the user node uid of the upper level,
\* from the j-th on; acc holds second, first_rev and dummy_id.
RECURSIVE gen_succs(_, _, _, _, _)
gen_succs(uid, succs, j, R, acc) ==
    IF j > Len(succs) THEN acc
    ELSE LET gsucc == succs[j]
             acc1  == IF is_reversed_source(R, gsucc)
                      THEN [acc EXCEPT
                              !.first_rev = Append(@, ReverseDummy(acc.dummy_id, gsucc, uid)),
                              !.second = Append(@, ReverseDummy(acc.dummy_id + 1, gsucc, uid)),
                              !.dummy_id = @ + 2]
                      ELSE acc
             acc2  == IF ~has_user(acc1.second, gsucc)
                      THEN [acc1 EXCEPT
                              !.second = Append(@, Dummy(acc1.dummy_id, uid, gsucc)),
                              !.dummy_id = @ + 1]
                      ELSE acc1
         IN  gen_succs(uid, succs, j + 1, R, acc2)

\* A Dummy that is not continued into the level below.
drop_dummy(fnode, acc) == acc

\* The arm of a Dummy of the upper level: unless its target is a user node of
\* the lower level, a Dummy of the same edge is pushed there.
continue_dummy(fnode, acc) ==
    IF ~has_user(acc.second, fnode.target)
    THEN [acc EXCEPT
            !.second = Append(@, Dummy(acc.dummy_id, fnode.src, fnode.target)),
            !.dummy_id = @ + 1]
    ELSE acc

\* The loop over the entries of the upper level, from the i-th on.
RECURSIVE gen_nodes(_, _, _, _, _)
gen_nodes(first, i, E, R, acc) ==
    IF i > Len(first) THEN acc
    ELSE LET fnode == first[i] IN
         IF fnode.kind = "User"
         THEN gen_nodes(first, i + 1, E, R,
                        gen_succs(fnode.src, successors(E, fnode.src), 1, R, acc))
         ELSE IF fnode.kind = "Dummy"
         THEN gen_nodes(first, i + 1, E, R, continue_dummy(fnode, acc))
         ELSE gen_nodes(first, i + 1, E, R,
                  IF ~has_user(first, fnode.src)
                  THEN [acc EXCEPT
                          !.second = Append(@, ReverseDummy(acc.dummy_id, fnode.src, fnode.target)),
                          !.dummy_id = @ + 1]
                  ELSE acc)

\* The loop over level_index_iter: the pairs (index, index + 1) of internal
\* levels, positions counted from 1, up to the position last.
RECURSIVE gen_pairs(_, _, _, _, _, _)
gen_pairs(lv, index, last, E, R, dummy_id) ==
    IF index > last THEN lv
    ELSE LET acc == gen_nodes(lv[index], 1, E, R,
                        [second |-> lv[index + 1], first_rev |-> <<>>, dummy_id |-> dummy_id])
         IN  gen_pairs([lv EXCEPT ![index] = @ \o acc.first_rev, ![index + 1] = acc.second],
                       index + 1, last, E, R, acc.dummy_id)

\* The levels with their dummies, every level turned round: the dummies come
\* first and the user nodes last.
dummies_first(lvls, E, R) ==
    IF lvls = <<>> THEN <<>>
    ELSE LET users == [i \in DOMAIN lvls |-> [j \in DOMAIN lvls[i] |-> User(lvls[i][j])]]
             made  == IF R # <<>>
                      THEN gen_pairs(<<<<>>>> \o users \o <<<<>>>>, 2, Len(lvls), E, R, 0)
                      ELSE gen_pairs(users, 1, Len(lvls) - 1, E, R, 0)
         IN  [k \in DOMAIN made |-> Reverse(made[k])]

\* Grid::generate_levels: the levels with their dummies; with reversed edges an
\* empty level is put before the first and after the last level.
generate_levels(lvls, E, R) ==
    IF lvls = <<>> THEN <<>>
    ELSE LET users == [i \in DOMAIN lvls |-> [j \in DOMAIN lvls[i] |-> User(lvls[i][j])]]
         IN  IF R # <<>>
             THEN gen_pairs(<<<<>>>> \o users \o <<<<>>>>, 2, Len(lvls), E, R, 0)
             ELSE gen_pairs(users, 1, Len(lvls) - 1, E, R, 0)

\* ------------------------------------------------------------------ grid.rs: connectors

\* config.glyph_width() - 1: the last column of the grid.
max_column(cfg) == cfg.max_glyphs_per_layer - 1

\* The columns an entry takes between its two borders.
entry_width(n, names) == IF n.kind = "User" THEN name_len(names, n.src) ELSE 1

\* The raw column of the entry at position p (counted from 1) of a level: two
\* borders and the width of every entry before it, half its own label, and 1.
raw_x_coord(p, level, names) ==
    (p - 1) * 2
    + sum_seq([j \in 1..(p - 1) |-> entry_width(level[j], names)])
    + (IF level[p].kind = "User" THEN name_len(names, level[p].src) \div 2 ELSE 0)
    + 1

\* The column left as computed, whatever max_x is.
unclamped(p, level, names, max_x) == raw_x_coord(p, level, names)

\* The column of an entry: the raw column, clamped to max_x.
get_x_coord(p, level, names, max_x) == Min(raw_x_coord(p, level, names), max_x)

\* The position of the first entry of level that satisfies Test, 0 if none.
find_position(level, Test(_)) ==
    IF \E i \in DOMAIN level : Test(level[i])
    THEN CHOOSE i \in DOMAIN level : Test(level[i]) /\ \A j \in 1..(i - 1) : ~Test(level[j])
    ELSE 0

\* Horizontal: the four kinds of connectors, as one record shape.
TopBottom(src_x, src, targets, x_bounds) ==
    [kind |-> "TopBottom", src_x |-> src_x, src |-> src, targets |-> targets,
     target |-> 0, x_bounds |-> x_bounds]

OneTarget(kind, src_x, src, target, x_bounds) ==
    [kind |-> kind, src_x |-> src_x, src |-> src, targets |-> <<>>,
     target |-> target, x_bounds |-> x_bounds]

\* The base of generate_horizontal: a BottomBottom connector for every
\* ReverseDummy of the lower level whose target is a user node of that level.
RECURSIVE base_horizontals(_, _, _, _)
base_horizontals(second, i, names, max_x) ==
    IF i > Len(second) THEN <<>>
    ELSE LET n  == second[i]
             tp == find_position(second, LAMBDA e : e.kind = "User" /\ e.src = n.target)
             tx == get_x_coord(tp, second, names, max_x)
             sx == get_x_coord(i, second, names, max_x)
             rest == base_horizontals(second, i + 1, names, max_x)
         IN  IF n.kind = "ReverseDummy" /\ tp # 0
             THEN <<OneTarget("BottomBottom", sx, n.src, tx, <<Min(sx, tx), Max(sx, tx)>>)>>
                      \o rest
             ELSE rest

\* The entry of the lower level that continues the edge from the user node id
\* to succ_id; 0 makes the panic "Could not find successor Node in second".
user_target(id, succ_id, second) ==
    find_position(second, LAMBDA e :
        IF e.kind = "User" THEN e.src = succ_id ELSE e.src = id /\ e.target = succ_id)

\* The entry of the lower level at which the search of a Dummy for its
\* continuation ends: the first that continues it, or the first ReverseDummy,
\* on which the search ends in todo!(); 0 makes unwrap() panic.
dummy_target(n, second) ==
    find_position(second, LAMBDA e :
        \/ e.kind = "User" /\ e.src = n.target
        \/ e.kind = "Dummy" /\ e.src = n.src /\ e.target = n.target
        \/ e.kind = "ReverseDummy")

\* The ReverseDummy of the lower level that continues one of the upper level;
\* 0 makes unwrap() panic.
reverse_target(n, second) ==
    find_position(second, LAMBDA e :
        e.kind = "ReverseDummy" /\ e.src = n.src /\ e.target = n.target)

\* The successors of an entry of the upper level as (column, is it a Dummy)
\* pairs, the column clamped to max_x.  A search that finds nothing panics in
\* expect() or unwrap(), the search of a Dummy that meets a ReverseDummy in
\* todo!(): ok is then FALSE and panic names it.
successor_targets(n, E, first, second, names, max_x) ==
    IF n.kind = "User"
    THEN LET succs == successors(E, n.src)
             pos   == [j \in DOMAIN succs |-> user_target(n.src, succs[j], second)]
         IN  IF \E j \in DOMAIN pos : pos[j] = 0
             THEN [ok |-> FALSE, targets |-> <<>>, panic |-> "expect"]
             ELSE [ok |-> TRUE, panic |-> "",
                   targets |-> [j \in DOMAIN pos |->
                                  <<get_x_coord(pos[j], second, names, max_x),
                                    second[pos[j]].kind = "Dummy">>]]
    ELSE IF n.kind = "Dummy"
    THEN LET tp == dummy_target(n, second)
         IN  IF tp = 0 THEN [ok |-> FALSE, targets |-> <<>>, panic |-> "unwrap"]
             ELSE IF second[tp].kind = "ReverseDummy"
             THEN [ok |-> FALSE, targets |-> <<>>, panic |-> "todo"]
             ELSE [ok |-> TRUE, panic |-> "",
                   targets |-> << <<get_x_coord(tp, second, names, max_x),
                                    second[tp].kind = "Dummy">> >>]
    ELSE IF has_user(first, n.src)
    THEN LET tp == find_position(first, LAMBDA e : e.kind = "User" /\ e.src = n.src)
         IN  [ok |-> TRUE, panic |-> "",
              targets |-> << <<get_x_coord(tp, first, names, max_x), FALSE>> >>]
    ELSE LET tp == reverse_target(n, second)
         IN  IF tp = 0 THEN [ok |-> FALSE, targets |-> <<>>, panic |-> "unwrap"]
             ELSE [ok |-> TRUE, panic |-> "",
                   targets |-> << <<get_x_coord(tp, second, names, max_x), FALSE>> >>]

\* The connector of the entry at position p of the upper level: no connector
\* (none) for an entry without targets.
connector(p, E, first, second, names, max_x) ==
    Bind(successor_targets(first[p], E, first, second, names, max_x), LAMBDA st :
    Bind(get_x_coord(p, first, names, max_x), LAMBDA root :
        LET n  == first[p]
            xs == {root} \cup {st.targets[j][1] : j \in DOMAIN st.targets}
            sx == CHOOSE x \in xs : \A z \in xs : x <= z
            tx == CHOOSE x \in xs : \A z \in xs : x >= z
            t1 == st.targets[1][1]
        IN  IF ~st.ok THEN [ok |-> FALSE, panic |-> st.panic, hori |-> <<>>]
            ELSE [ok |-> TRUE, panic |-> "",
                  hori |-> IF st.targets = <<>> THEN <<>>
                           ELSE IF n.kind \in {"User", "Dummy"}
                           THEN <<TopBottom(root, n.src, st.targets, <<sx, tx>>)>>
                           ELSE IF has_user(first, n.src)
                           THEN <<OneTarget("TopTop", root, n.src, t1, <<sx, tx>>)>>
                           ELSE <<OneTarget("BottomTop", t1, n.src, root,
                                            <<Min(t1, root), Max(t1, root)>>)>>]))

\* The connectors of the entries of the upper level, from position p on.
RECURSIVE connectors_from(_, _, _, _, _, _)
connectors_from(p, E, first, second, names, max_x) ==
    IF p > Len(first) THEN [ok |-> TRUE, panic |-> "", horis |-> <<>>]
    ELSE Bind(connector(p, E, first, second, names, max_x), LAMBDA c :
             IF ~c.ok THEN [ok |-> FALSE, panic |-> c.panic, horis |-> <<>>]
             ELSE Bind(connectors_from(p + 1, E, first, second, names, max_x), LAMBDA rest :
                      IF ~rest.ok THEN rest
                      ELSE [ok |-> TRUE, panic |-> "", horis |-> c.hori \o rest.horis]))

\* Grid::generate_horizontal: the connectors of the gap between two levels,
\* those of the upper level's entries first, the BottomBottom ones after them.
generate_horizontal(E, first, second, names, max_x) ==
    Bind(connectors_from(1, E, first, second, names, max_x), LAMBDA c :
        IF ~c.ok THEN c
        ELSE [ok |-> TRUE, panic |-> "",
              horis |-> c.horis \o base_horizontals(second, 1, names, max_x)])

\* Grid::generate_horizontals: one list of connectors per window of two levels.
RECURSIVE generate_horizontals(_, _, _, _, _)
generate_horizontals(E, ilv, i, names, max_x) ==
    IF i >= Len(ilv) THEN [ok |-> TRUE, panic |-> "", gaps |-> <<>>]
    ELSE Bind(generate_horizontal(E, ilv[i], ilv[i + 1], names, max_x), LAMBDA c :
             IF ~c.ok THEN [ok |-> FALSE, panic |-> c.panic, gaps |-> <<>>]
             ELSE Bind(generate_horizontals(E, ilv, i + 1, names, max_x), LAMBDA rest :
                      IF ~rest.ok THEN rest
                      ELSE [ok |-> TRUE, panic |-> "", gaps |-> <<c.horis>> \o rest.gaps]))

\* ------------------------------------------------------------------ grid/entry.rs

\* Entry: what a cell of the grid holds.  src is the id the entry carries, None
\* where it carries none; part is the index into the label of a user node.
Entry(kind, src) == [kind |-> kind, node |-> "", src |-> src, part |-> 0]

Empty == Entry("Empty", None)

\* Entry::Node over EntryNode::User, SingleSrc and MultiSrc.
Node(node, src, part) == [kind |-> "Node", node |-> node, src |-> src, part |-> part]

\* What the merge of two entries gives where the code panics.
Overlapping == Entry("Overlapping Horizontals", None)

Unreachable == Entry("unreachable", None)

\* impl Add for Entry: the entry of a cell that holds cur after rhs is written
\* to it, the arms in the order of the match.
add(cur, rhs) ==
    IF cur.kind = "Empty" THEN rhs
    ELSE IF cur.kind = "Horizontal" /\ rhs.kind = "Horizontal"
    THEN (IF cur.src = rhs.src THEN rhs ELSE Overlapping)
    ELSE IF cur.kind = "Horizontal" /\ rhs.kind = "Empty" THEN cur
    ELSE IF cur.kind = "Horizontal" /\ rhs.kind = "Veritcal"
    THEN (IF rhs.src # None /\ cur.src = rhs.src
          THEN Entry("Cross", rhs.src) ELSE Entry("Cross", None))
    ELSE IF cur.kind = "Veritcal" /\ rhs.kind = "Veritcal"
    THEN (IF cur.src = rhs.src THEN rhs ELSE Entry("Veritcal", None))
    ELSE IF cur.kind = "Veritcal" /\ rhs.kind = "Empty" THEN cur
    ELSE IF cur.kind = "Veritcal" /\ rhs.kind = "Horizontal"
    THEN (IF cur.src # None /\ cur.src = rhs.src
          THEN Entry("Cross", rhs.src) ELSE Entry("Cross", None))
    ELSE IF cur.kind = "ArrowDown" /\ rhs.kind = "ArrowDown"
    THEN (IF cur.src = rhs.src THEN rhs ELSE Entry("ArrowDown", None))
    ELSE IF cur.kind = "Veritcal" /\ rhs.kind = "ArrowDown"
    THEN (IF cur.src = rhs.src THEN rhs ELSE Entry("ArrowDown", None))
    ELSE IF cur.kind = "Cross" /\ rhs.kind = "Empty" THEN cur
    ELSE IF cur.kind = "Cross" /\ cur.src = None THEN Entry("Cross", None)
    ELSE IF cur.kind = "Cross" /\ rhs.kind = "Horizontal"
    THEN (IF cur.src = rhs.src THEN Entry("Cross", rhs.src) ELSE Entry("Cross", None))
    ELSE IF cur.kind = "Cross" /\ rhs.kind = "Veritcal"
    THEN (IF rhs.src # None /\ cur.src = rhs.src
          THEN Entry("Cross", rhs.src) ELSE Entry("Cross", None))
    ELSE IF cur.kind = "Node" /\ cur.node = "SingleSrc"
            /\ rhs.kind = "Node" /\ rhs.node = "SingleSrc"
    THEN (IF rhs.src = cur.src THEN Node("SingleSrc", rhs.src, 0)
          ELSE Node("MultiSrc", None, 0))
    ELSE IF cur.kind = "Node" /\ cur.node = "MultiSrc"
            /\ rhs.kind = "Node" /\ rhs.node = "SingleSrc"
    THEN Node("MultiSrc", None, 0)
    ELSE Unreachable

\* Whether the merge of two entries panicked.
is_panic(e) == e.kind \in {"Overlapping Horizontals", "unreachable"}

\* ------------------------------------------------------------------ grid/grid_structure.rs

\* The integers a..b in order, none if b < a.
span(a, b) == [i \in 1..saturating_sub(b + 1, a) |-> a + i - 1]

\* One write to the grid: the entry e to column x of row y (both from 0).  A
\* write with pad set only makes the row x + 1 cells long.
Write(x, y, e) == [x |-> x, y |-> y, e |-> e, pad |-> FALSE]

Pad(x, y) == [x |-> x, y |-> y, e |-> Empty, pad |-> TRUE]

\* InnerGrid::row_mut and the loop of Row::set: rows up to y, cells up to x.
padded(g, x, y) ==
    LET rows == IF Len(g) > y THEN g ELSE g \o [i \in 1..(y + 1 - Len(g)) |-> <<>>]
    IN  IF Len(rows[y + 1]) > x THEN rows
        ELSE [rows EXCEPT ![y + 1] = @ \o [i \in 1..(x + 1 - Len(@)) |-> Empty]]

\* InnerGrid::set, Row::set and Cursor::set: the cell becomes the merge of what
\* it holds and the entry.
set(g, w) ==
    IF w.pad THEN padded(g, w.x, w.y)
    ELSE [padded(g, w.x, w.y) EXCEPT ![w.y + 1][w.x + 1] = add(@, w.e)]

\* The record of a panic: its message, the cell it happened at, what the cell
\* held and what was written to it.
Fault(panic, x, y, held, written) ==
    [panic |-> panic, x |-> x, y |-> y, held |-> held, written |-> written]

\* One write: the grid after it, or the panic of the merge with the write
\* that met it.
apply_write(g, w) ==
    Bind(set(g, w), LAMBDA g2 :
        IF ~w.pad /\ is_panic(g2[w.y + 1][w.x + 1])
        THEN [ok |-> FALSE, grid |-> g,
              fault |-> <<Fault(g2[w.y + 1][w.x + 1].kind, w.x, w.y,
                                padded(g, w.x, w.y)[w.y + 1][w.x + 1], w.e)>>]
        ELSE [ok |-> TRUE, grid |-> g2, fault |-> <<>>])

\* The writes ws[lo..hi] one after the other; the first merge that panics
\* ends them.  The range is halved to keep the evaluation shallow.
RECURSIVE apply_writes(_, _, _, _)
apply_writes(g, ws, lo, hi) ==
    IF lo > hi THEN [ok |-> TRUE, grid |-> g, fault |-> <<>>]
    ELSE IF lo = hi THEN apply_write(g, ws[lo])
    ELSE Bind(apply_writes(g, ws, lo, (lo + hi) \div 2), LAMBDA done :
             IF ~done.ok THEN done
             ELSE apply_writes(done.grid, ws, (lo + hi) \div 2 + 1, hi))

\* The length of format!("{:?}", id) for an integer id: its decimal digits.
RECURSIVE debug_len(_)
debug_len(id) == IF id < 10 THEN 1 ELSE 1 + debug_len(id \div 10)

\* impl From<LevelEntry> for EntryNode: a user node stays one, a dummy becomes
\* the SingleSrc of its source.  insert_nodes hands a ReverseDummy over as a
\* LevelEntry::Dummy.
entry_node(n) == IF n.kind = "User" THEN "User" ELSE "SingleSrc"

\* Cursor::set_node with the cursor at column x of row y: the row is made to
\* reach column x + length, and a cell is written per character of the Debug
\* format of the entry's id; the cursor is left at column x + length.
set_node(n, x, y) ==
    LET length == debug_len(n.src)
    IN  <<Pad(x + length, y)>>
          \o [k \in 1..length |-> Write(x + k - 1, y, Node(entry_node(n), n.src, k - 1))]

\* Cursor::next_x is called by insert_nodes before the blank in front of an
\* entry is written, and the source defines no such method.  Either it names
\* the column of the cursor or the column behind that blank, where the entry
\* itself would begin: the two readings are 0 and 1 columns ahead.
Readings == {0, 1}

next_x(x, ahead) == x + ahead

\* ------------------------------------------------------------------ grid.rs: drawing

\* Sequences of sequences, joined in order.
RECURSIVE flatten_from(_, _)
flatten_from(ss, i) == IF i > Len(ss) THEN <<>> ELSE ss[i] \o flatten_from(ss, i + 1)

flatten(seqs) == Bind(seqs, LAMBDA ss : flatten_from(ss, 1))

\* Grid::insert_nodes from the i-th entry of the level on, the cursor at column
\* x: the writes of row y, up to the panic if there is one.  An entry whose
\* next_x lies past max_x is written with the cursor set to max_x; a user node
\* there is the unreachable!() of the loop, and a user node without a name the
\* expect("") of the lookup.
RECURSIVE insert_nodes(_, _, _, _, _, _, _)
insert_nodes(y, level, names, max_x, ahead, i, x) ==
    IF i > Len(level) THEN [ok |-> TRUE, panic |-> "", writes |-> <<>>]
    ELSE IF next_x(x, ahead) > max_x
    THEN IF level[i].kind = "User"
         THEN [ok |-> FALSE, panic |-> "unreachable User", writes |-> <<>>]
         ELSE Bind(insert_nodes(y, level, names, max_x, ahead, i + 1,
                                max_x + debug_len(level[i].src)), LAMBDA rest :
                  [ok |-> rest.ok, panic |-> rest.panic,
                   writes |-> set_node(level[i], max_x, y) \o rest.writes])
    ELSE IF level[i].kind = "User" /\ level[i].src \notin DOMAIN names
    THEN [ok |-> FALSE, panic |-> "expect", writes |-> <<Write(x, y, Empty)>>]
    ELSE Bind(insert_nodes(y, level, names, max_x, ahead, i + 1,
                           x + debug_len(level[i].src) + 2), LAMBDA rest :
             [ok |-> rest.ok, panic |-> rest.panic,
              writes |-> <<Write(x, y, Empty)>> \o set_node(level[i], x + 1, y)
                           \o <<Write(x + 1 + debug_len(level[i].src), y, Empty)>>
                           \o rest.writes])

\* Whether the connector has a horizontal part.
is_wide(h) == h.x_bounds[1] # h.x_bounds[2]

\* Rows that do not move with the connectors: every connector on the first
\* row, the level below four rows down.
one_row(src_y, horis, horizontal_spacer) ==
    [ys |-> [i \in DOMAIN horis |-> src_y + 2], final_y |-> src_y + 4]

\* Grid::determine_ys: the row of the horizontal part of every connector, and
\* the row of the level below.
determine_ys(src_y, horis, horizontal_spacer) ==
    [ys |-> [i \in DOMAIN horis |->
               src_y + 2 + sum_seq([j \in 1..(i - 1) |->
                                      IF is_wide(horis[j]) THEN 1 + horizontal_spacer ELSE 0])],
     final_y |-> src_y + 4
                 + sum_seq([i \in DOMAIN horis |->
                              IF i < Len(horis) /\ is_wide(horis[i]) THEN 1 + horizontal_spacer
                              ELSE IF i = Len(horis) /\ is_wide(horis[i]) THEN 1 ELSE 0])]

\* The row of verticals below the nodes: one under every connector that
\* leaves the upper level.
vertical_row(y, horis) ==
    flatten([i \in DOMAIN horis |->
        IF horis[i].kind = "TopBottom" \/ horis[i].kind = "TopTop"
        THEN <<Write(horis[i].src_x, y, Entry("Veritcal", horis[i].src))>>
        ELSE IF horis[i].kind = "BottomTop"
        THEN <<Write(horis[i].target, y, Entry("Veritcal", horis[i].src))>>
        ELSE <<>>])

\* The writes of entries of one kind down a column, a row at a time.
column(x, ys, e) == [i \in DOMAIN ys |-> Write(x, ys[i], e)]

\* The horizontal part of a connector on row y_height.
horizontal_line(h, y_height) ==
    IF is_wide(h)
    THEN [i \in 1..(h.x_bounds[2] - h.x_bounds[1] + 1) |->
            Write(h.x_bounds[1] + i - 1, y_height, Entry("Horizontal", h.src))]
    ELSE <<>>

\* The writes of one target with the verticals drawn one row further down,
\* into the row of the arrows.
long_verticals(h, t, y, y_height, lowest_y) ==
    column(t[1], span(y_height, lowest_y - 1), Entry("Veritcal", h.src))
    \o column(t[1], span(y_height, y - 2), Entry("Veritcal", h.src))
    \o <<Write(t[1], lowest_y - 1,
               IF t[2] THEN Entry("Veritcal", h.src) ELSE Entry("ArrowDown", h.src))>>

\* The writes of one target of a TopBottom connector.
target_writes(h, t, y, y_height, lowest_y) ==
    column(t[1], span(y_height, lowest_y - 2), Entry("Veritcal", h.src))
    \o column(t[1], span(y_height, y - 2), Entry("Veritcal", h.src))
    \o <<Write(t[1], lowest_y - 1,
               IF t[2] THEN Entry("Veritcal", h.src) ELSE Entry("ArrowDown", h.src))>>

\* The writes of one connector in the loop of connect_layer; y is the row
\* below the row of verticals.
hori_writes(h, y, y_height, lowest_y) ==
    LET V == Entry("Veritcal", h.src)
    IN  horizontal_line(h, y_height) \o
        (IF h.kind = "TopBottom"
         THEN column(h.src_x, span(y - 1, y_height), V)
              \o flatten([j \in DOMAIN h.targets |->
                            target_writes(h, h.targets[j], y, y_height, lowest_y)])
         ELSE IF h.kind = "BottomTop"
         THEN column(h.target, span(y - 1, y_height), V)
              \o column(h.src_x, span(y_height, lowest_y - 1), V)
              \o column(h.src_x, span(y_height, y - 2), V)
         ELSE IF h.kind = "TopTop"
         THEN column(h.src_x, span(y - 1, y_height), V)
              \o column(h.target, span(y - 1, y_height), V)
         ELSE column(h.src_x, span(y_height, lowest_y - 1), V)
              \o column(h.target, span(y_height, lowest_y - 2), V)
              \o <<Write(h.target, lowest_y - 1, Entry("ArrowDown", h.src))>>)

\* Grid::connect_layer: the nodes of a level on row y, the connectors to the
\* level below, and the row of that level.
connect_layer(y, level, horis, names, cfg, ahead) ==
    Bind(insert_nodes(y, level, names, max_column(cfg), ahead, 1, 0), LAMBDA ins :
    Bind(determine_ys(y, horis, cfg.vertical_edge_spacing), LAMBDA dy :
        [ok |-> ins.ok,
         panic |-> ins.panic,
         writes |-> IF ~ins.ok THEN <<Pad(-1, y)>> \o ins.writes
                    ELSE <<Pad(-1, y)>> \o ins.writes \o vertical_row(y + 1, horis)
                           \o flatten([i \in DOMAIN horis |->
                                         hori_writes(horis[i], y + 2, dy.ys[i], dy.final_y)]),
         y |-> dy.final_y]))

\* The loop of Grid::construct from the i-th level on: every level with the
\* connectors below it, the last level with none.
RECURSIVE connect_layers(_, _, _, _, _, _, _, _)
connect_layers(g, y, ilv, gaps, i, names, cfg, ahead) ==
    IF i > Len(ilv) THEN [ok |-> TRUE, grid |-> g, fault |-> <<>>]
    ELSE Bind(connect_layer(y, ilv[i], IF i <= Len(gaps) THEN gaps[i] ELSE <<>>, names, cfg,
                            ahead),
              LAMBDA layer :
             Bind(apply_writes(g, layer.writes, 1, Len(layer.writes)), LAMBDA drawn :
                 IF ~drawn.ok THEN drawn
                 ELSE IF ~layer.ok
                 THEN [ok |-> FALSE, grid |-> drawn.grid,
                       fault |-> <<Fault(layer.panic, 0, y, Empty, Empty)>>]
                 ELSE connect_layers(drawn.grid, layer.y, ilv, gaps, i + 1, names, cfg,
                                     ahead)))

\* Grid::construct: the internal levels, the connectors of every gap, and the
\* layers drawn from the top.  A panic leaves pc at "grid_panic" and its
\* record in fault.
grid_construct ==
    /\ pc = "levelled"
    /\ \E ilv \in {generate_levels(levels, aedges, reversed_edges)} :
       \E hs \in {generate_horizontals(aedges, ilv, 1, node_names, max_column(config))} :
       \E ahead \in Readings :
       \E res \in {IF hs.ok
                   THEN connect_layers(<<>>, 0, ilv, hs.gaps, 1, node_names, config, ahead)
                   ELSE [ok |-> FALSE, grid |-> <<>>,
                         fault |-> <<Fault(hs.panic, 0, 0, Empty, Empty)>>]} :
           /\ ilevels' = ilv
           /\ horizontals' = hs.gaps
           /\ grid' = res.grid
           /\ fault' = res.fault
           /\ pc' = IF res.ok THEN "rendered" ELSE "grid_panic"
    /\ UNCHANGED <<analysis, input, anodes, aedges, reversed_edges, reduced, ordering, levels, previous,
                   stdout, ys_call>>

\* ------------------------------------------------------------------ pipeline

\* usize::MAX, the default of max_glyphs_per_layer, at the width of the
\* integers of the model checker.
UsizeMax == 2147483647

\* The length of IDFormatter::format_node's "(id)" for a one-digit id.
IdLabel == 3

\* Config::new(IDFormatter::new(), 2).
default_config ==
    [max_per_layer |-> 2, max_glyphs_per_layer |-> UsizeMax, vertical_edge_spacing |-> 1]

\* The input graphs: the nodes 1..n and edges between them, MaxSize nodes and
\* edges together at most.  Self-loops and cycles are among them.
Graphs ==
    {g \in [n : 1..MaxNodes, E : SUBSET (SmallIds \X SmallIds)] :
        /\ g.E \subseteq (1..g.n) \X (1..g.n)
        /\ g.n + Cardinality(g.E) <= MaxSize}

\* A chain of four nodes with an edge from its first node to its last: the
\* edge crosses two levels.
Skipping == [n |-> 4, E |-> {<<1, 2>>, <<2, 3>>, <<3, 4>>, <<1, 4>>}]

\* The same with an edge back from 3 to 2: the edge that crosses two levels
\* passes a level that a reversed edge is routed through.
SkippingCycle == [n |-> 4, E |-> {<<1, 2>>, <<2, 3>>, <<3, 2>>, <<3, 4>>, <<1, 4>>}]

\* Two cycles of two nodes each: two components of more than one vertex.
TwoCycles == [n |-> 4, E |-> {<<1, 2>>, <<2, 1>>, <<3, 4>>, <<4, 3>>}]

\* What no render has written yet.
Blank ==
    /\ anodes = <<>>
    /\ aedges = <<>>
    /\ reversed_edges = <<>>
    /\ reduced = <<>>
    /\ ordering = <<>>
    /\ levels = <<>>
    /\ previous = <<>>
    /\ ilevels = <<>>
    /\ horizontals = <<>>
    /\ grid = <<>>
    /\ fault = <<>>
    /\ scc_result = <<>>
    /\ sequence = <<>>
    /\ feedback = <<>>
    /\ stdout = <<>>
    /\ ys_call = <<>>

\* A graph built with add_nodes and add_edges, labelled by IDFormatter, about
\* to be rendered under the default configuration.
Init ==
    /\ \E g \in Graphs :
          /\ nodes = [id \in 1..g.n |-> 1]
          /\ edges = Adjacency(g.E)
          /\ node_names = [id \in 1..g.n |-> IdLabel]
    /\ config = default_config
    /\ pc = "to_acyclic"
    /\ inserted = nodes
    /\ added = EdgeSet(edges)
    /\ Blank

Next ==
    \/ ToAcyclic
    \/ BreakCycle
    \/ BreakDone
    \/ display_levels

Spec == Init /\ [][Next]_vars

\* ------------------------------------------------------------------ two renders

\* What a render hands to the grid: the reversed edges and the levels.
output == [reversed_edges |-> reversed_edges, levels |-> levels]

\* The same graph is rendered once more under the same configuration: every
\* map of the render is built afresh.
DisplayAgain ==
    /\ pc = "levelled"
    /\ previous = <<>>
    /\ previous' = <<output>>
    /\ pc' = "to_acyclic"
    /\ anodes' = <<>>
    /\ aedges' = <<>>
    /\ reversed_edges' = <<>>
    /\ reduced' = <<>>
    /\ ordering' = <<>>
    /\ levels' = <<>>
    /\ UNCHANGED <<analysis, input, picture>>

NextTwice == Next \/ DisplayAgain

SpecTwice == Init /\ [][NextTwice]_vars

\* ------------------------------------------------------------------ building alone

\* DirectedGraph::new, and any sequence of add_nodes and add_edges after it.
InitBuild ==
    /\ nodes = <<>>
    /\ edges = <<>>
    /\ inserted = <<>>
    /\ added = {}
    /\ node_names = <<>>
    /\ config = default_config
    /\ pc = "build"
    /\ Blank

NextBuild == add_nodes \/ add_edges

SpecBuild == InitBuild /\ [][NextBuild]_vars

\* ------------------------------------------------------------------ levels alone

\* The label lengths, the node budgets and the glyph budgets of the level
\* assignment.
MaxLabel == 3

MaxPerLayer == 2

GlyphBudgets == {5, 8, 12, UsizeMax}

\* The acyclic graphs handed to GraphLevels::construct: the nodes 1..n with
\* edges from lower to higher ids; the walking order of the node keys runs
\* through every permutation, so every acyclic graph of n nodes is covered.
AcyclicGraphs ==
    {g \in [n : 1..MaxNodes, E : SUBSET (SmallIds \X SmallIds)] :
        /\ g.E \subseteq {p \in (1..g.n) \X (1..g.n) : p[1] < p[2]}
        /\ g.n + Cardinality(g.E) <= MaxSize}

\* The labels: one node at most has the long label, the others the short one.
Labels(n) == {[id \in 1..n |-> IF id = wide THEN MaxLabel ELSE 1] : wide \in 0..n}

\* An AcyclicDirectedGraph built directly, with labels and budgets of every kind.
InitLevels ==
    /\ \E g \in AcyclicGraphs :
          /\ nodes = [id \in 1..g.n |-> 1]
          /\ edges = Adjacency(g.E)
          /\ anodes \in Perms(1..g.n)
          /\ aedges \in Orderings(Adjacency(g.E))
          /\ node_names \in Labels(g.n)
    /\ config \in [max_per_layer : 0..MaxPerLayer, max_glyphs_per_layer : GlyphBudgets,
                   vertical_edge_spacing : {1}]
    /\ pc = "levels"
    /\ reversed_edges = <<>>
    /\ reduced = <<>>
    /\ ordering = <<>>
    /\ levels = <<>>
    /\ previous = <<>>
    /\ ilevels = <<>>
    /\ horizontals = <<>>
    /\ grid = <<>>
    /\ fault = <<>>
    /\ scc_result = <<>>
    /\ sequence = <<>>
    /\ feedback = <<>>
    /\ stdout = <<>>
    /\ ys_call = <<>>
    /\ inserted = nodes
    /\ added = EdgeSet(edges)

NextLevels == construct

SpecLevels == InitLevels /\ [][NextLevels]_vars

\* ------------------------------------------------------------------ narrow grids

\* The finite glyph budgets: one that holds one node labelled by IDFormatter
\* to a level, and one that holds two.
NarrowBudgets == {IdLabel + 4, 2 * IdLabel + 6}

\* The graphs drawn under them: those with room for one more node or edge,
\* and the two whose long edge crosses two levels.
NarrowGraphs ==
    {g \in Graphs : g.n + Cardinality(g.E) < MaxSize} \cup {Skipping, SkippingCycle}

\* A graph, cycles among them, about to be rendered under a finite glyph
\* budget.
InitGrid ==
    /\ \E g \in NarrowGraphs :
          /\ nodes = [id \in 1..g.n |-> 1]
          /\ edges = Adjacency(g.E)
          /\ node_names = [id \in 1..g.n |-> IdLabel]
    /\ config \in [max_per_layer : {default_config.max_per_layer},
                   max_glyphs_per_layer : NarrowBudgets,
                   vertical_edge_spacing : {default_config.vertical_edge_spacing}]
    /\ pc = "to_acyclic"
    /\ inserted = nodes
    /\ added = EdgeSet(edges)
    /\ Blank

\* Grid::construct takes the levels of GraphLevels::construct (levels::Level),
\* the configuration and the names: the level assignment that keeps the glyph
\* budget is the one whose levels are drawn under a budget.
NextGrid ==
    \/ ToAcyclic
    \/ BreakCycle
    \/ BreakDone
    \/ construct
    \/ grid_construct

SpecGrid == InitGrid /\ [][NextGrid]_vars

\* ------------------------------------------------------------------ determine_ys alone

\* The most connectors of a gap, the widest spacing and the lowest node row
\* determine_ys is called with.
MaxHoris == 3

MaxSpacing == 2

MaxSrcY == 2

\* The connectors of a gap: each either straight down (both bounds equal) or
\* with a horizontal part.
Gaps ==
    UNION {[1..k -> {TopBottom(0, 1, <<<<0, FALSE>>>>, <<0, 0>>),
                     TopBottom(0, 1, <<<<2, FALSE>>>>, <<0, 2>>)}] : k \in 0..MaxHoris}

InitYs ==
    /\ nodes = <<1>>
    /\ edges = <<>>
    /\ node_names = <<IdLabel>>
    /\ config \in [max_per_layer : {default_config.max_per_layer},
                   max_glyphs_per_layer : {default_config.max_glyphs_per_layer},
                   vertical_edge_spacing : 0..MaxSpacing]
    /\ pc = "determine_ys"
    /\ inserted = nodes
    /\ added = {}
    /\ anodes = <<>>
    /\ aedges = <<>>
    /\ reversed_edges = <<>>
    /\ reduced = <<>>
    /\ ordering = <<>>
    /\ levels = <<>>
    /\ previous = <<>>
    /\ ilevels = <<>>
    /\ \E horis \in Gaps : horizontals = <<horis>>
    /\ grid = <<>>
    /\ fault = <<>>
    /\ scc_result = <<>>
    /\ sequence = <<>>
    /\ feedback = <<>>
    /\ \E src_y \in 0..MaxSrcY : ys_call = [src_y |-> src_y, ys |-> <<>>, final_y |-> None]
    /\ stdout = <<>>

\* A call of Grid::determine_ys with the connectors of the gap.
determine ==
    /\ pc = "determine_ys"
    /\ \E dy \in {determine_ys(ys_call.src_y, horizontals[1], config.vertical_edge_spacing)} :
          ys_call' = [src_y |-> ys_call.src_y, ys |-> dy.ys, final_y |-> dy.final_y]
    /\ pc' = "determined"
    /\ UNCHANGED <<analysis, input, anodes, aedges, reversed_edges, reduced, ordering, levels, previous,
                   ilevels, horizontals, grid, fault, stdout>>

NextYs == determine

SpecYs == InitYs /\ [][NextYs]_vars

\* ------------------------------------------------------------------ display

\* A check of display's first line that lets every graph through.
never_empty(N) == FALSE

\* DirectedGraph::is_empty: whether the node map holds no node.
is_empty(N) == DOMAIN N = {}

\* The entry of display: a graph without nodes makes it return at once.
display ==
    /\ pc = "display"
    /\ pc' = IF is_empty(nodes) THEN "returned" ELSE "to_acyclic"
    /\ UNCHANGED <<analysis, input, anodes, aedges, reversed_edges, reduced, ordering, levels, previous,
                   picture>>

\* The end of display: Grid::display prints one line per row of the grid, and
\* the println!() after it one empty line.
grid_display ==
    /\ pc = "rendered"
    /\ stdout' = stdout \o grid \o << <<>> >>
    /\ pc' = "displayed"
    /\ UNCHANGED <<analysis, input, anodes, aedges, reversed_edges, reduced, ordering, levels, previous,
                   ilevels, horizontals, grid, fault, ys_call>>

\* The graphs without nodes: DirectedGraph::new, with or without edges added.
EmptyGraphs == [n : {0}, E : SUBSET ({1, 2} \X {1, 2})]

\* Any graph, those without nodes among them, handed to display under the
\* default configuration: no level is clamped to a last column.
InitDisplay ==
    /\ \E g \in NarrowGraphs \cup EmptyGraphs :
          /\ nodes = [id \in 1..g.n |-> 1]
          /\ edges = Adjacency(g.E)
          /\ node_names = [id \in 1..g.n |-> IdLabel]
    /\ config = default_config
    /\ pc = "display"
    /\ inserted = nodes
    /\ added = EdgeSet(edges)
    /\ Blank

\* Under the default configuration no glyph budget tells the two level
\* assignments of the source apart, the one display calls and the one whose
\* levels Grid::construct takes: the levels of either are drawn.
NextDisplay ==
    \/ display
    \/ ToAcyclic
    \/ BreakCycle
    \/ BreakDone
    \/ display_levels
    \/ construct
    \/ grid_construct
    \/ grid_display

SpecDisplay == InitDisplay /\ [][NextDisplay]_vars

\* ------------------------------------------------------------------ properties

\* The pairs joined by a path of at least one and at most k edges of R.
RECURSIVE Paths(_, _)
Paths(R, k) ==
    IF k <= 1 THEN R
    ELSE {p \in Ids \X Ids :
            \/ p \in R
            \/ \E q \in R : q[1] = p[1] /\ <<q[2], p[2]>> \in Paths(R, k - 1)}

\* The vertices the edges of R touch.
Vertices(R) == {q[1] : q \in R} \cup {q[2] : q \in R}

\* The pairs joined by a directed path of R; one edge per vertex reaches every
\* one.
TC(R) == Paths(R, Cardinality(Vertices(R)))

\* R has no directed cycle, a self-loop included.
Acyclic(R) == \A x \in Ids : <<x, x>> \notin TC(R)

Flip(S) == {<<p[2], p[1]>> : p \in S}

\* The edges of R that lie on a directed cycle.
CycleEdges(R) == {p \in R : p[1] = p[2] \/ <<p[2], p[1]>> \in TC(R)}

\* R's only directed cycle is one simple cycle of at least two vertices.
OneSimpleCycle(R) ==
    LET C == CycleEdges(R) IN
    /\ C # {}
    /\ \A p \in C : p[1] # p[2]
    /\ \A p, q \in C : p[1] = q[1] => p = q
    /\ \A p, q \in C : p[1] = q[1] \/ <<p[1], q[1]>> \in TC(R)

\* The graphs with a cycle through two vertices or more: those that make
\* to_acyclic enter its loop.
CyclicGraphs ==
    {g \in Graphs : \E p \in g.E : p[1] # p[2] /\ <<p[2], p[1]>> \in TC(g.E)} \cup {TwoCycles}

InitBreak ==
    /\ \E g \in CyclicGraphs :
          /\ nodes = [id \in 1..g.n |-> 1]
          /\ edges = Adjacency(g.E)
          /\ node_names = [id \in 1..g.n |-> IdLabel]
    /\ config = default_config
    /\ pc = "to_acyclic"
    /\ inserted = nodes
    /\ added = EdgeSet(edges)
    /\ Blank

\* to_acyclic alone. Its loop is straight-line code that runs turn after turn
\* until it breaks, so a turn of the loop that can be taken is taken.
NextBreak == ToAcyclic \/ BreakCycle \/ BreakDone

SpecBreak == InitBreak /\ [][NextBreak]_vars /\ WF_vars(BreakCycle \/ BreakDone)

\* The tree of the test topsort_branched, its ids counted from 1.
Tree == [n |-> 5, E |-> {<<1, 2>>, <<1, 3>>, <<2, 4>>, <<3, 5>>}]

\* The minimal acyclic graphs: no edge has a path of two or more edges beside
\* it.  The tree is one more of them.
MinimalGraphs ==
    {g \in AcyclicGraphs :
        \A p \in g.E : ~\E w \in Ids : <<p[1], w>> \in g.E /\ <<w, p[2]>> \in TC(g.E)}
    \cup {Tree}

\* A MinimalAcyclicDirectedGraph, its node keys in any walking order.
InitSort ==
    /\ \E g \in MinimalGraphs :
          /\ nodes = [id \in 1..g.n |-> 1]
          /\ edges = Adjacency(g.E)
          /\ anodes \in Perms(1..g.n)
          /\ aedges \in Orderings(Adjacency(g.E))
          /\ reduced = Adjacency(g.E)
          /\ node_names = [id \in 1..g.n |-> IdLabel]
    /\ config = default_config
    /\ pc = "sort"
    /\ inserted = nodes
    /\ added = {}
    /\ reversed_edges = <<>>
    /\ ordering = <<>>
    /\ levels = <<>>
    /\ previous = <<>>
    /\ ilevels = <<>>
    /\ horizontals = <<>>
    /\ grid = <<>>
    /\ fault = <<>>
    /\ scc_result = <<>>
    /\ sequence = <<>>
    /\ feedback = <<>>
    /\ stdout = <<>>
    /\ ys_call = <<>>

\* A call of topological_sort: the ordering, or the panic of remove(0) on an
\* empty Vec.
sort ==
    /\ pc = "sort"
    /\ \E ord \in {topological_sort(anodes, reduced)} :
          /\ ordering' = ord.ordering
          /\ pc' = IF ord.ok THEN "sorted" ELSE "panic"
    /\ UNCHANGED <<analysis, input, anodes, aedges, reversed_edges, reduced, levels, previous, picture>>

NextSort == sort

SpecSort == InitSort /\ [][NextSort]_vars

\* The index of the level (counted from the top) that holds the vertex v.
level_index(v) == CHOOSE i \in DOMAIN levels : v \in Range(levels[i])

\* Every vertex of the graph is on exactly one level.
Placed == \A v \in DOMAIN nodes : \E i \in DOMAIN levels : v \in Range(levels[i])

\* ------------------------------------------------------------------ claims

\* C1: rendering the same graph with the same configuration twice yields the
\* same output: the reversed edges, the membership of every level and the
\* order of the entries inside each level of the second render equal those of
\* the first, whatever order the hash maps are walked in.
C1_SecondRenderEqual ==
    (pc = "levelled" /\ previous # <<>>) => output = previous[1]

\* C2: for every directed graph, self-loops included, the adjacency that
\* to_acyclic returns has no directed cycle.
C2_ResultAcyclic ==
    pc = "levels" => Acyclic(OrderedEdgeSet(aedges))

\* C3: for every input graph without a directed cycle, to_acyclic returns (it
\* never enters the cycle-breaking loop) with an empty list of reversed edges
\* and with exactly the nodes and the edges of the input.
C3_AcyclicInputUnchanged ==
    (Acyclic(EdgeSet(edges)) /\ pc # "to_acyclic") =>
        /\ pc \notin {"break_cycles", "panic"}
        /\ reversed_edges = <<>>
        /\ OrderedEdgeSet(aedges) = EdgeSet(edges)
        /\ Range(anodes) = DOMAIN nodes
        /\ Len(anodes) = Cardinality(DOMAIN nodes)

\* An acyclic graph of two edges at least has been returned by to_acyclic.
C3_Witness ==
    /\ pc = "levels"
    /\ Acyclic(EdgeSet(edges))
    /\ Cardinality(EdgeSet(edges)) >= 2
    /\ reversed_edges = <<>>

\* C4: in the graph that transitive_reduction returns for an acyclic input, no
\* edge (u, v) has a path from u to v of two or more edges beside it.
C4_NoTransitiveEdge ==
    pc \in {"levelled", "panic", "exhausted"} /\ reduced # <<>> =>
        \A p \in EdgeSet(reduced) :
            ~\E w \in Ids : /\ <<p[1], w>> \in EdgeSet(reduced)
                           /\ <<w, p[2]>> \in TC(EdgeSet(reduced))

\* The reduction has removed an edge and kept two.
C4_Witness ==
    /\ pc = "levelled"
    /\ EdgeSet(reduced) # OrderedEdgeSet(aedges)
    /\ Cardinality(EdgeSet(reduced)) >= 2

\* C5: in the levels returned, counted from the top, every edge (u, v) of the
\* minimal graph has v on a level strictly below the level of u, for every
\* node-count budget and glyph budget.
C5_EdgesPointDown ==
    pc = "levelled" =>
        /\ Placed
        /\ \A p \in EdgeSet(reduced) : level_index(p[2]) > level_index(p[1])

\* A vertex has spilled over: an edge of the minimal graph skips a level.
C5_Witness ==
    /\ pc = "levelled"
    /\ Placed
    /\ \E p \in EdgeSet(reduced) : level_index(p[2]) >= level_index(p[1]) + 2

\* C6: every level returned holds at most max_per_layer nodes, and under a
\* finite glyph budget the labels of a level, each with its two borders, sum
\* to the budget at most.
C6_LevelsWithinBudgets ==
    pc = "levelled" =>
        \A i \in DOMAIN levels :
            /\ Len(levels[i]) <= config.max_per_layer
            /\ config.max_glyphs_per_layer < UsizeMax =>
                  glyph_width_of(levels[i], node_names) <= config.max_glyphs_per_layer

\* Under a finite glyph budget one level is full and a vertex has gone to
\* another level than the lowest.
C6_Witness ==
    /\ pc = "levelled"
    /\ config.max_glyphs_per_layer < UsizeMax
    /\ Len(levels) >= 2
    /\ \E i \in DOMAIN levels : Len(levels[i]) = config.max_per_layer /\ Len(levels[i]) >= 2

\* C7: a graph with a self-loop (u, u) is processed to completion: cycle
\* breaking, the reachability worklist, the topological sort and the level
\* assignment all end with a result.
C7_SelfLoopCompletes ==
    (\E u \in Ids : <<u, u>> \in EdgeSet(edges)) =>
        pc \notin {"exhausted", "panic", "todo"}

\* C9: every reversed pair is an edge of the original graph in its original
\* direction, no pair is listed twice or in both directions, and the adjacency
\* is the original edge set with exactly the listed pairs flipped.
C9_ReversedAreFlippedOriginals ==
    pc # "to_acyclic" =>
        LET L == Range(reversed_edges) IN
        /\ L \subseteq EdgeSet(edges)
        /\ Cardinality(L) = Len(reversed_edges)
        /\ \A p \in L : <<p[2], p[1]>> \notin L
        /\ OrderedEdgeSet(aedges) = (EdgeSet(edges) \ L) \cup Flip(L)

\* to_acyclic has returned after reversing two edges.
C9_Witness ==
    /\ pc = "levels"
    /\ Len(reversed_edges) >= 2

\* C10: for a graph whose only directed cycle is one simple cycle of two or
\* more vertices, to_acyclic reverses exactly one edge, an edge of the cycle,
\* and returns an acyclic adjacency, whichever vertex is visited first.
C10_OneReversalPerSimpleCycle ==
    (OneSimpleCycle(EdgeSet(edges)) /\ pc # "to_acyclic") =>
        /\ pc # "panic"
        /\ Len(reversed_edges) <= 1
        /\ Range(reversed_edges) \subseteq CycleEdges(EdgeSet(edges))
        /\ Len(reversed_edges) = 1 => Acyclic(OrderedEdgeSet(aedges))
        /\ pc # "break_cycles" => Len(reversed_edges) = 1

\* The 3-cycle has been returned with one edge reversed.
C10_Witness ==
    /\ pc = "levels"
    /\ OneSimpleCycle(EdgeSet(edges))
    /\ Cardinality(CycleEdges(EdgeSet(edges))) = 3
    /\ Len(reversed_edges) = 1

\* Whether some entry of some internal level would lie past the last column.
Overflowing ==
    \E l \in DOMAIN ilevels : \E p \in DOMAIN ilevels[l] :
        raw_x_coord(p, ilevels[l], node_names) > max_column(config)

\* The columns a connector names.
columns_of(h) ==
    {h.src_x, h.x_bounds[1], h.x_bounds[2]}
    \cup (IF h.kind = "TopBottom" THEN {h.targets[j][1] : j \in DOMAIN h.targets}
          ELSE {h.target})

\* The panics of drawing: the unreachable!() of insert_nodes for a user node
\* past the last column, and the two of the merge of entries.
DrawingPanics == {"unreachable User", "unreachable", "Overlapping Horizontals"}

C11_BuilderKeepsLastAndUnion ==
    pc = "build" =>
        /\ nodes = inserted
        /\ DOMAIN edges = {p[1] : p \in added}
        /\ \A f \in DOMAIN edges : edges[f] = {p[2] : p \in {q \in added : q[1] = f}}

\* C11's case: both ids are nodes, a source holds two targets, one of them
\* itself, and an edge runs between two ids that are not both nodes.
C11_Witness ==
    /\ pc = "build"
    /\ DOMAIN nodes = NodeIds
    /\ nodes[1] # nodes[2]
    /\ 1 \in DOMAIN edges
    /\ edges[1] = {1, 2}
    /\ 3 \in DOMAIN edges
    /\ 3 \in edges[3]
    /\ 3 \notin DOMAIN nodes

\* The entries of the cells of the grid.
cells == UNION {Range(grid[y]) : y \in DOMAIN grid}

\* C12: when no level is clamped to a last column, Grid::construct never ends
\* in a panic of the merge of entries, for cyclic graphs as for acyclic ones:
\* no write meets a cell in a pairing the merge leaves to its catch-all
\* unreachable!(), and no two horizontals of different sources overlap.
C12_MergesAreDefined ==
    config.max_glyphs_per_layer = UsizeMax =>
        \A i \in DOMAIN fault : fault[i].panic \notin {"unreachable", "Overlapping Horizontals"}

\* C12's case: a cyclic graph is drawn, and writes have met cells already
\* written to: a vertical crossed a horizontal, and the arrows of two
\* sources met above one node.
C12_Witness ==
    /\ pc = "rendered"
    /\ config.max_glyphs_per_layer = UsizeMax
    /\ reversed_edges # <<>>
    /\ \E e \in cells : e.kind = "Cross"
    /\ \E e \in cells : e.kind = "ArrowDown" /\ e.src = None

\* C13: display on a graph without nodes returns before any stage of the
\* pipeline has run, and prints nothing: no row of a grid and no empty line
\* after it. It does not panic.
C13_EmptyGraphPrintsNothing ==
    (DOMAIN nodes = {} /\ pc # "display") =>
        /\ pc = "returned"
        /\ stdout = <<>>
        /\ Blank

\* C13's case: display has returned on a graph without nodes, one that was
\* given edges among them.
C13_Witness ==
    /\ pc = "returned"
    /\ DOMAIN nodes = {}
    /\ edges # <<>>

\* C14: the cycle-breaking loop of to_acyclic ends for every graph, whichever
\* component Tarjan lists first and in whichever order it lists the vertices:
\* after finitely many reversals of one edge each, the loop breaks with every
\* strongly connected component a single vertex.
C14_LoopTerminates ==
    (pc = "break_cycles") ~> (pc = "levels" /\ all_single(sccs(anodes, aedges)))

\* C14's case: of two components of two vertices each, the one of the higher
\* ids was found first and broken first, the other after it, and the loop has
\* broken; the walking order of the node keys decides which comes first.
C14_Witness ==
    /\ pc = "levels"
    /\ DOMAIN nodes = 1..4
    /\ Len(reversed_edges) = 2
    /\ reversed_edges[1] \in {<<3, 4>>, <<4, 3>>}
    /\ reversed_edges[2] \in {<<1, 2>>, <<2, 1>>}
    /\ all_single(sccs(anodes, aedges))

\* C15: transitive_reduction on an acyclic graph keeps every key of the
\* adjacency and removes the edge (u, v) exactly when v is reachable from a
\* successor w of u other than v; so the edges returned are among the edges
\* given, and the same vertices are joined by a path before and after.
C15_ReductionRemovesExactlyRedundant ==
    pc \in {"levelled", "panic", "exhausted"} /\ reduced # <<>> =>
        /\ DOMAIN reduced = DOMAIN aedges
        /\ EdgeSet(reduced) \subseteq OrderedEdgeSet(aedges)
        /\ \A p \in OrderedEdgeSet(aedges) :
              p \notin EdgeSet(reduced) <=>
                  \E w \in Ids \ {p[2]} :
                      /\ <<p[1], w>> \in OrderedEdgeSet(aedges)
                      /\ <<w, p[2]>> \in TC(OrderedEdgeSet(aedges))
        /\ TC(EdgeSet(reduced)) = TC(OrderedEdgeSet(aedges))

\* C15's case: of the edges 1 -> 2, 1 -> 3 and 2 -> 3 the reduction has
\* removed 1 -> 3 and kept the other two.
C15_Witness ==
    /\ pc = "levelled"
    /\ OrderedEdgeSet(aedges) = {<<1, 2>>, <<1, 3>>, <<2, 3>>}
    /\ EdgeSet(reduced) = {<<1, 2>>, <<2, 3>>}

\* The level of the vertex v counted from the bottom, the lowest being 0.
level_from_bottom(v) == Len(levels) - level_index(v)

\* The vertices placed before v: distribute_nodes walks the ordering backwards.
placed_before(v) ==
    {ordering[j] : j \in {k \in DOMAIN ordering :
                            \E i \in DOMAIN ordering : ordering[i] = v /\ k > i}}

\* The vertices the level L (from the bottom) held when v was placed.
held_then(v, L) == {u \in placed_before(v) : level_from_bottom(u) = L}

\* The candidate level of v: one above its highest successor in the minimal
\* graph, 0 without successors.
candidate(v) ==
    LET succs == {p[2] : p \in {q \in EdgeSet(reduced) : q[1] = v}}
    IN  IF succs = {} THEN 0
        ELSE 1 + (CHOOSE m \in {level_from_bottom(u) : u \in succs} :
                     \A u \in succs : level_from_bottom(u) <= m)

\* The sum of the glyph widths (label and two borders) of a set of vertices.
RECURSIVE width_of(_)
width_of(S) ==
    IF S = {} THEN 0
    ELSE LET u == CHOOSE x \in S : TRUE
         IN  name_len(node_names, u) + 2 + width_of(S \ {u})

\* Whether the level L had room for v when v was placed: fewer vertices than
\* the node budget, and their widths with the width of v within the glyph
\* budget.
had_room(v, L) ==
    /\ Cardinality(held_then(v, L)) < config.max_per_layer
    /\ width_of(held_then(v, L)) + name_len(node_names, v) + 2 <= config.max_glyphs_per_layer

\* C16: every vertex is placed on the lowest level, from its candidate level
\* upwards, that has room for it at the moment of placement: the level it is
\* on had room, and no level between the candidate and it had.
C16_LowestLevelWithRoom ==
    pc = "levelled" =>
        \A v \in DOMAIN nodes :
            /\ level_from_bottom(v) >= candidate(v)
            /\ had_room(v, level_from_bottom(v))
            /\ \A L \in candidate(v)..(level_from_bottom(v) - 1) : ~had_room(v, L)

\* C17: with a node budget of one or more and any glyph budget, the level
\* assignment ends with every vertex on exactly one level, one entry of it: a
\* vertex that finds a level full moves on to the next, also when its own
\* label is as wide as the glyph budget or wider.
C17_EveryVertexPlacedOnce ==
    (config.max_per_layer >= 1 /\ pc # "levels") =>
        /\ pc = "levelled"
        /\ \A v \in DOMAIN nodes :
              Cardinality({<<i, j>> \in (DOMAIN levels) \X (1..MaxNodes) :
                              j \in DOMAIN levels[i] /\ levels[i][j] = v}) = 1

\* The edges of an adjacency of sets as pairs, whatever the ids.
pairs_of(M) == UNION {{<<from, t>> : t \in M[from]} : from \in DOMAIN M}

\* The position of the vertex v in the ordering.
position(v) == CHOOSE i \in DOMAIN ordering : ordering[i] = v

\* C18: topological_sort on a minimal acyclic graph returns every node of the
\* graph exactly once, each after all of its predecessors.
C18_SortIsTopological ==
    pc = "sorted" =>
        /\ Len(ordering) = Cardinality(DOMAIN nodes)
        /\ Range(ordering) = DOMAIN nodes
        /\ \A p \in pairs_of(reduced) : position(p[1]) < position(p[2])

\* C18's case: a node with two predecessors is sorted after both, and the
\* result is not the order the node keys were walked in.
C18_Witness ==
    /\ pc = "sorted"
    /\ pairs_of(reduced) = {<<1, 3>>, <<2, 3>>}
    /\ ordering # anodes
    /\ anodes[1] = 3

\* The predecessors of v in the minimal graph.
preds(v) == {p[1] : p \in {q \in pairs_of(reduced) : q[2] = v}}

\* The nodes available after the first k entries of the ordering: those not
\* among them whose predecessors all are.
available(k) ==
    {v \in DOMAIN nodes : /\ \A i \in 1..k : ordering[i] # v
                          /\ \A u \in preds(v) : position(u) <= k}

\* The rank of an available node: the position of its earliest-placed
\* predecessor, 0 for a node without predecessors.
rank(v) ==
    IF preds(v) = {} THEN 0
    ELSE CHOOSE i \in DOMAIN ordering :
            ordering[i] \in preds(v) /\ \A u \in preds(v) : position(u) >= i

\* C19: wherever more than one node is available, the node taken next is one
\* of the lowest rank among them: its earliest-placed predecessor stands
\* before those of the others, a node without predecessors before all. The
\* tree 1 -> {2, 3}, 2 -> 4, 3 -> 5 is sorted as 1 2 3 4 5 or as 1 3 2 5 4.
C19_TakesLowestRank ==
    pc = "sorted" =>
        /\ \A k \in 0..(Len(ordering) - 1) :
              Cardinality(available(k)) > 1 =>
                  /\ ordering[k + 1] \in available(k)
                  /\ \A u \in available(k) : rank(ordering[k + 1]) <= rank(u)
        /\ pairs_of(reduced) = Tree.E =>
              ordering \in {<<1, 2, 3, 4, 5>>, <<1, 3, 2, 5, 4>>}

\* C19's case: the tree is sorted from a walking order that lists the leaves
\* before their parents, and the second branch is taken first.
C19_Witness ==
    /\ pc = "sorted"
    /\ pairs_of(reduced) = Tree.E
    /\ anodes = <<5, 4, 3, 2, 1>>
    /\ ordering = <<1, 3, 2, 5, 4>>

\* The connectors of the gap determine_ys was called with, and those of them
\* before the k-th that have a horizontal part.
gap == horizontals[1]

bent_before(k) == {j \in 1..(k - 1) : gap[j].x_bounds[1] # gap[j].x_bounds[2]}

\* C20: determine_ys gives the k-th connector the row src_y + 2 + (1 + spacing)
\* times the number of connectors with a horizontal part before it, and the
\* next node row src_y + 4 + (1 + spacing) times the number of such connectors
\* other than the last, one more if the last has a horizontal part. Without
\* connectors that is src_y + 4; two connectors with a horizontal part never
\* share a row, and every connector row is two rows or more above the next
\* node row.
C20_ConnectorRows ==
    pc = "determined" =>
        LET spacing == config.vertical_edge_spacing
            n       == Len(gap)
        IN  /\ DOMAIN ys_call.ys = 1..n
            /\ \A k \in 1..n :
                  ys_call.ys[k] = ys_call.src_y + 2
                                  + (1 + spacing) * Cardinality(bent_before(k))
            /\ ys_call.final_y = ys_call.src_y + 4
                                 + (1 + spacing) * Cardinality(bent_before(n))
                                 + (IF n > 0 /\ gap[n].x_bounds[1] # gap[n].x_bounds[2] THEN 1 ELSE 0)
            /\ n = 0 => ys_call.final_y = ys_call.src_y + 4
            /\ \A j, k \in 1..n :
                  (j # k /\ gap[j].x_bounds[1] # gap[j].x_bounds[2]
                         /\ gap[k].x_bounds[1] # gap[k].x_bounds[2])
                      => ys_call.ys[j] # ys_call.ys[k]
            /\ \A k \in 1..n : ys_call.final_y - ys_call.ys[k] >= 2

\* C20's case: three connectors, the first and the last with a horizontal
\* part, under a spacing of two, from a node row other than the first.
C20_Witness ==
    /\ pc = "determined"
    /\ Len(gap) = 3
    /\ gap[1].x_bounds = <<0, 2>>
    /\ gap[2].x_bounds = <<0, 0>>
    /\ gap[3].x_bounds = <<0, 2>>
    /\ config.vertical_edge_spacing = 2
    /\ ys_call.src_y = 1
    /\ ys_call.ys = <<3, 6, 6>>
    /\ ys_call.final_y = 9

\* ------------------------------------------------------------------ dummies

\* The internal level that holds the entries of levels[i]: with reversed edges
\* an empty level comes first.
shift == IF reversed_edges # <<>> THEN 1 ELSE 0

\* The positions of internal level k that hold a Dummy of the edge u -> v.
dummies_of(u, v, k) ==
    {p \in DOMAIN ilevels[k] :
        /\ ilevels[k][p].kind = "Dummy"
        /\ ilevels[k][p].src = u
        /\ ilevels[k][p].target = v}

\* C21: after generate_levels, for every edge (u, v) of the acyclic graph
\* before reduction, with u in level i and v in level j, every level strictly
\* between i and j holds exactly one Dummy(u, v) and no other level holds one;
\* an edge between adjacent levels has no Dummy at all.
C21_DummyChains ==
    pc \in {"rendered", "grid_panic"}
    => \A e \in OrderedEdgeSet(aedges) : \A k \in DOMAIN ilevels :
          Cardinality(dummies_of(e[1], e[2], k))
              = IF level_index(e[1]) < k - shift /\ k - shift < level_index(e[2])
                THEN 1 ELSE 0

\* A render of the chain 1 -> 2 -> 3 -> 4 of adjacent levels with the edge
\* 1 -> 4 across the levels of 2 and of 3: each of the two holds one
\* Dummy(1, 4), the second pushed as the continuation of the first.
C21_Witness ==
    /\ pc = "rendered"
    /\ OrderedEdgeSet(aedges) = Skipping.E
    /\ reversed_edges = <<>>
    /\ Len(ilevels) = 4
    /\ \A k \in {2, 3} : Cardinality(dummies_of(1, 4, k)) = 1
    /\ \A k \in {1, 4} : dummies_of(1, 4, k) = {}
    /\ \A k \in 1..4 : \A e \in Skipping.E \ {<<1, 4>>} : dummies_of(e[1], e[2], k) = {}

\* The entries of every internal level.
entries == UNION {Range(ilevels[k]) : k \in DOMAIN ilevels}

\* C22: generate_levels creates a ReverseDummy(src, target) only for a pair
\* (src, target) of the reversed edges: an edge of the acyclic graph that is
\* not the flip of a reversed edge gets none, whatever else its target is
\* the source of.
C22_ReverseDummiesAreReversed ==
    pc \in {"rendered", "grid_panic"}
    => \A e \in entries :
          e.kind = "ReverseDummy" => <<e.src, e.target>> \in Range(reversed_edges)

\* The ids of the user nodes of an internal level, in order.
users_of(level) ==
    LET us == SelectSeq(level, LAMBDA e : e.kind = "User")
    IN  [i \in DOMAIN us |-> us[i].src]

\* An empty level was put above the first level of user nodes, or below the
\* last one.
top_added == ilevels # <<>> /\ ilevels[1] = <<>>

bottom_added == ilevels # <<>> /\ ilevels[Len(ilevels)] = <<>>

\* The side is used: the gap between the boundary level and the user nodes
\* next to it carries a connector.
top_used == horizontals # <<>> /\ horizontals[1] # <<>>

bottom_used == horizontals # <<>> /\ horizontals[Len(horizontals)] # <<>>

\* C23: without reversed edges generate_levels adds no boundary level and the
\* internal levels hold the user nodes of the input levels, level by level in
\* order; with reversed edges an empty boundary level is above the top level
\* only if a connector of a reversed edge is anchored there, and below the
\* bottom level only if one is anchored there.
C23_BoundaryLevels ==
    pc = "rendered"
    => IF reversed_edges = <<>>
       THEN /\ Len(ilevels) = Len(levels)
            /\ \A k \in DOMAIN levels : users_of(ilevels[k]) = levels[k]
       ELSE /\ top_added => top_used
            /\ bottom_added => bottom_used

\* ------------------------------------------------------------------ connectors

\* The column of the entry at position p of internal level l.
column_of(l, p) == get_x_coord(p, ilevels[l], node_names, max_column(config))

\* The successors an entry of an upper level is to be connected to: those of
\* the graph for a user node, the target of its edge for a Dummy.
to_connect(e) ==
    IF e.kind = "User" THEN successors(aedges, e.src)
    ELSE IF e.kind = "Dummy" THEN <<e.target>>
    ELSE <<>>

\* The position in internal level l of the continuation of the edge u -> v:
\* the user node v, or else the Dummy of the edge.
continuation(l, u, v) ==
    IF has_user(ilevels[l], v)
    THEN CHOOSE p \in DOMAIN ilevels[l] :
             ilevels[l][p].kind = "User" /\ ilevels[l][p].src = v
    ELSE CHOOSE p \in DOMAIN ilevels[l] :
             ilevels[l][p].kind = "Dummy" /\ ilevels[l][p].src = u /\ ilevels[l][p].target = v

\* The positions of internal level l whose entries have a successor to be
\* connected to, in order.
sources_of(l) ==
    SelectSeq([p \in DOMAIN ilevels[l] |-> p], LAMBDA p : to_connect(ilevels[l][p]) # <<>>)

\* The TopBottom connectors of gap g, in order.
top_bottoms(g) == SelectSeq(horizontals[g], LAMBDA h : h.kind = "TopBottom")

\* Whether generate_horizontals returned: no search for the continuation of an
\* entry ended in todo!(), expect() or unwrap().
connectors_made == \A i \in DOMAIN fault : fault[i].panic \notin {"todo", "expect", "unwrap"}

\* C24: the connectors of every gap are made, and in every gap the TopBottom
\* connectors are, in order, one for every User or Dummy entry of the upper
\* level that has a successor to continue in the lower level, and none for an
\* entry without; the connector starts at the
\* column of its entry, has one target per successor, at the column of the user
\* node or of the Dummy that continues the edge, and its x_bounds are the
\* smallest and the largest of the source column and the target columns.
C24_OneConnectorPerSource ==
    pc \in {"rendered", "grid_panic"}
    => /\ connectors_made
       /\ \A g \in DOMAIN horizontals :
             LET srcs == sources_of(g)
                 tbs  == top_bottoms(g)
             IN  /\ Len(tbs) = Len(srcs)
                 /\ \A k \in DOMAIN srcs :
                       LET e     == ilevels[g][srcs[k]]
                           succs == to_connect(e)
                           h     == tbs[k]
                           cols  == {h.src_x} \cup {h.targets[j][1] : j \in DOMAIN h.targets}
                       IN  /\ h.src = e.src
                           /\ h.src_x = column_of(g, srcs[k])
                           /\ Len(h.targets) = Len(succs)
                           /\ \A j \in DOMAIN succs :
                                 LET c == continuation(g + 1, e.src, succs[j])
                                 IN  h.targets[j] = <<column_of(g + 1, c),
                                                      ilevels[g + 1][c].kind = "Dummy">>
                           /\ \A x \in cols : h.x_bounds[1] <= x /\ x <= h.x_bounds[2]
                           /\ h.x_bounds[1] \in cols
                           /\ h.x_bounds[2] \in cols

\* A render in which one user node fans out to two targets of the level below,
\* one of them the Dummy of an edge that goes on, and in which the gap below
\* connects that Dummy and a user node to the same target.
C24_Witness ==
    /\ pc = "rendered"
    /\ \E g \in DOMAIN horizontals :
          /\ Len(top_bottoms(g)) = 1
          /\ Len(top_bottoms(g)[1].targets) = 2
          /\ \E j \in 1..2 : top_bottoms(g)[1].targets[j][2]
          /\ top_bottoms(g)[1].x_bounds[1] < top_bottoms(g)[1].x_bounds[2]
          /\ g + 1 \in DOMAIN horizontals
          /\ Len(top_bottoms(g + 1)) = 2

\* The routes that end in an arrow: the pairs (u, v) for which a TopBottom
\* connector whose source carries the id u has a target that is the user node
\* v of the level below.
arrow_routes ==
    UNION {UNION {{<<top_bottoms(g)[k].src, to_connect(ilevels[g][sources_of(g)[k]])[j]>> :
                      j \in {i \in DOMAIN top_bottoms(g)[k].targets :
                                ~top_bottoms(g)[k].targets[i][2]}} :
                  k \in DOMAIN top_bottoms(g)} :
           g \in DOMAIN horizontals}

\* C25: every route of TopBottom connectors that starts at the user node u and
\* ends in an arrow at the user node v is an edge (u, v) of the graph the
\* caller built; in particular the flip of a reversed edge is not drawn as an
\* arrow from its original target to its original source.
C25_ArrowsAreOriginalEdges ==
    pc = "rendered" => arrow_routes \subseteq EdgeSet(edges)

\* ------------------------------------------------------------------ sccs alone

\* The graphs handed to tarjan::sccs: the nodes 1..n and edges between any
\* ids, those of no node among them; one edge more than there are ids at most.
LooseGraphs ==
    {g \in [n : 1..MaxNodes, E : SUBSET (SmallIds \X SmallIds)] :
        /\ Cardinality(g.E) <= MaxNodes + 1
        /\ g.n + Cardinality(g.E) < MaxSize}

\* A call of sccs with a node map and an adjacency walked in any order.
InitSccs ==
    /\ \E g \in LooseGraphs :
          /\ nodes = [id \in 1..g.n |-> 1]
          /\ edges = Adjacency(g.E)
          /\ anodes \in Perms(1..g.n)
          /\ aedges \in Orderings(Adjacency(g.E))
          /\ node_names = [id \in 1..g.n |-> IdLabel]
    /\ config = default_config
    /\ pc = "sccs"
    /\ inserted = nodes
    /\ added = EdgeSet(edges)
    /\ reversed_edges = <<>>
    /\ reduced = <<>>
    /\ ordering = <<>>
    /\ levels = <<>>
    /\ previous = <<>>
    /\ ilevels = <<>>
    /\ horizontals = <<>>
    /\ grid = <<>>
    /\ fault = <<>>
    /\ stdout = <<>>
    /\ ys_call = <<>>
    /\ scc_result = <<>>
    /\ sequence = <<>>
    /\ feedback = <<>>

\* tarjan::sccs: the components, in the order they are found.
tarjan_sccs ==
    /\ pc = "sccs"
    /\ scc_result' = sccs(anodes, aedges)
    /\ pc' = "sccs_done"
    /\ UNCHANGED <<input, anodes, aedges, reversed_edges, reduced, ordering, levels, previous,
                   picture, sequence, feedback>>

NextSccs == tarjan_sccs

SpecSccs == InitSccs /\ [][NextSccs]_vars

\* The edges between nodes: those from or to an id that is no node left out.
node_edges == {p \in EdgeSet(edges) : p[1] \in DOMAIN nodes /\ p[2] \in DOMAIN nodes}

\* Each of the two nodes is reachable from the other along edges between nodes.
mutually_reachable(u, v) ==
    u = v \/ (<<u, v>> \in TC(node_edges) /\ <<v, u>> \in TC(node_edges))

\* The position of the components that hold the node.
components_of(v) == {i \in DOMAIN scc_result : v \in Range(scc_result[i])}

\* C26: sccs returns a partition of the node set, every node in exactly one
\* component and in it once, in which two nodes share a component if and only
\* if each is reachable from the other along edges between nodes; targets that
\* are no nodes are ignored, and a node whose only cycle is a self-loop is a
\* component of its own.
C26_SccsPartition ==
    pc = "sccs_done"
    => /\ \A i \in DOMAIN scc_result :
             /\ scc_result[i] # <<>>
             /\ Range(scc_result[i]) \subseteq DOMAIN nodes
             /\ Cardinality(Range(scc_result[i])) = Len(scc_result[i])
       /\ \A v \in DOMAIN nodes : Cardinality(components_of(v)) = 1
       /\ \A u, v \in DOMAIN nodes :
             (components_of(u) = components_of(v)) <=> mutually_reachable(u, v)

\* A call on the nodes 1 and 2: 1 has a self-loop, 2 has an edge to 1, and 1
\* reaches 2 only over the id 3, which is no node; both are components of
\* their own.
C26_Witness ==
    /\ pc = "sccs_done"
    /\ DOMAIN nodes = {1, 2}
    /\ EdgeSet(edges) = {<<1, 1>>, <<1, 3>>, <<3, 2>>, <<2, 1>>}
    /\ Len(scc_result) = 2
    /\ components_of(1) # components_of(2)

\* ------------------------------------------------------------------ feedback_arc_set.rs

\* The number of successors a vertex has left: edges.get(id).map(|e| e.len()).
out_degree(E, v) == IF v \in DOMAIN E THEN Cardinality(E[v]) ELSE 0

\* The number of target sets that hold the vertex.
in_degree(E, v) == Cardinality({k \in DOMAIN E : v \in E[k]})

\* edges.remove(v), and targets.retain(|target| *target != v) on what is left.
remove_vertex(E, v) == [k \in DOMAIN E \ {v} |-> E[k] \ {v}]

\* find_sink: as long as some vertex is the target of no edge, the one found
\* first is taken out and put before everything in s2.  The counts are folded
\* into a fresh HashMap on every turn, so which of several is found first is
\* open: the operator gives every outcome, as records of what is left and s2.
RECURSIVE find_sink(_, _, _)
find_sink(N, E, s2) ==
    Bind({v \in Range(N) : in_degree(E, v) = 0}, LAMBDA untargeted :
        IF untargeted = {} THEN {[nodes |-> N, edges |-> E, s |-> s2]}
        ELSE UNION {find_sink(Without(N, v), remove_vertex(E, v), <<v>> \o s2) :
                        v \in untargeted})

\* find_source: as long as some vertex has no successor left, the first one in
\* the walking order of nodes is taken out and pushed onto s1.
RECURSIVE find_source(_, _, _)
find_source(N, E, s1) ==
    IF \E i \in DOMAIN N : out_degree(E, N[i]) = 0
    THEN Bind(N[CHOOSE i \in DOMAIN N :
                    /\ out_degree(E, N[i]) = 0
                    /\ \A j \in 1..(i - 1) : out_degree(E, N[j]) # 0], LAMBDA v :
             find_source(Without(N, v), remove_vertex(E, v), Append(s1, v)))
    ELSE [nodes |-> N, edges |-> E, s |-> s1]

\* The vertex max_by_key(out - in) returns: of several with the largest key,
\* the last in the walking order of nodes.
max_by_key(N, E) ==
    N[CHOOSE i \in DOMAIN N :
         /\ \A j \in DOMAIN N :
               out_degree(E, N[j]) - in_degree(E, N[j])
                   <= out_degree(E, N[i]) - in_degree(E, N[i])
         /\ \A j \in (i + 1)..Len(N) :
               out_degree(E, N[j]) - in_degree(E, N[j])
                   < out_degree(E, N[i]) - in_degree(E, N[i])]

\* find_vertex_sequence: the turns of its while loop, and s1 extended by s2.
\* The set of the sequences it may return.
RECURSIVE find_vertex_sequence(_, _, _, _)
find_vertex_sequence(N, E, s1, s2) ==
    IF N = <<>> THEN {s1 \o s2}
    ELSE UNION {Bind(find_source(a.nodes, a.edges, s1), LAMBDA b :
                    IF b.nodes = <<>> THEN {b.s \o a.s}
                    ELSE Bind(max_by_key(b.nodes, b.edges), LAMBDA u :
                             find_vertex_sequence(Without(b.nodes, u),
                                                  remove_vertex(b.edges, u),
                                                  Append(b.s, u), a.s))) :
                a \in find_sink(N, E, s2)}

\* The position of a vertex in the sequence.
index_in(seq, v) == CHOOSE i \in DOMAIN seq : seq[i] = v

\* The test that leaves out the edges from a vertex to itself.
strictly_before(src_index, target_index) == src_index < target_index

\* src_index <= target_index
not_after(src_index, target_index) == src_index <= target_index

\* The loop of calulate over the sequence: for every source, in the walking
\* order A of its targets, the edges whose source is not after its target.
feedback_arc_set(seq, A) ==
    flatten([i \in DOMAIN seq |->
        SelectSeq([j \in DOMAIN successors(A, seq[i]) |-> <<seq[i], successors(A, seq[i])[j]>>],
                  LAMBDA e : not_after(i, index_in(seq, e[2])))])

\* feedback_arc_set::calulate: the sequence and the edges returned.  A target
\* that is not in the sequence fails the unwrap() of the search for it.
calulate ==
    /\ pc = "calulate"
    /\ IF \E v \in DOMAIN nodes : Range(successors(aedges, v)) \ DOMAIN nodes # {}
       THEN /\ pc' = "panic"
            /\ UNCHANGED <<sequence, feedback>>
       ELSE \E seq \in find_vertex_sequence(anodes, edges, <<>>, <<>>) :
               /\ sequence' = seq
               /\ feedback' = feedback_arc_set(seq, aedges)
               /\ pc' = "calulated"
    /\ UNCHANGED <<input, anodes, aedges, reversed_edges, reduced, ordering, levels, previous,
                   picture, scc_result>>

\* A call of calulate with the nodes and the edges of a graph, the node set
\* and the target sets walked in any order.
InitFas ==
    /\ \E g \in Graphs :
          /\ nodes = [id \in 1..g.n |-> 1]
          /\ edges = Adjacency(g.E)
          /\ anodes \in Perms(1..g.n)
          /\ aedges \in Orderings(Adjacency(g.E))
          /\ node_names = [id \in 1..g.n |-> IdLabel]
    /\ config = default_config
    /\ pc = "calulate"
    /\ inserted = nodes
    /\ added = EdgeSet(edges)
    /\ reversed_edges = <<>>
    /\ reduced = <<>>
    /\ ordering = <<>>
    /\ levels = <<>>
    /\ previous = <<>>
    /\ ilevels = <<>>
    /\ horizontals = <<>>
    /\ grid = <<>>
    /\ fault = <<>>
    /\ stdout = <<>>
    /\ ys_call = <<>>
    /\ scc_result = <<>>
    /\ sequence = <<>>
    /\ feedback = <<>>

NextFas == calulate

SpecFas == InitFas /\ [][NextFas]_vars

\* The edges with the source at or after the target in the sequence.
backward == {e \in EdgeSet(edges) : index_in(sequence, e[1]) >= index_in(sequence, e[2])}

\* C27: the edges calulate returns are exactly the edges (u, v) with u at or
\* after v in the vertex sequence, the sequence that has the sources in front
\* and the sinks at the back.
C27_ReturnsBackwardEdges ==
    pc = "calulated" => Range(feedback) = backward

\* R's only directed cycle is one simple cycle, a self-loop or longer.
ExactlyOneCycle(R) == OneSimpleCycle(R) \/ \E u \in Ids : CycleEdges(R) = {<<u, u>>}

\* C28: calulate returns no edge for an acyclic graph; for every graph the
\* edges it returns are a feedback arc set, the graph without them has no
\* directed cycle; and for a graph with exactly one simple cycle it returns
\* exactly one edge, an edge of that cycle, whichever vertex breaks the tie.
C28_FeedbackArcSet ==
    pc = "calulated"
    => /\ Acyclic(EdgeSet(edges)) => feedback = <<>>
       /\ Range(feedback) \subseteq EdgeSet(edges)
       /\ Acyclic(EdgeSet(edges) \ Range(feedback))
       /\ ExactlyOneCycle(EdgeSet(edges))
             => Len(feedback) = 1 /\ feedback[1] \in CycleEdges(EdgeSet(edges))

\* A call on the cycle 1 -> 2 -> 1 with the edge 2 -> 3 leaving it, the graph
\* of tests::with_cycle without its entry node: the tie between 1 and 2 went
\* to 2, and the one edge returned is the edge from 2 to 1.
C28_Witness ==
    /\ pc = "calulated"
    /\ EdgeSet(edges) = {<<1, 2>>, <<2, 1>>, <<2, 3>>}
    /\ DOMAIN nodes = {1, 2, 3}
    /\ feedback = << <<2, 1>> >>

\* ------------------------------------------------------------------ levels of all edges

\* The edges of the acyclic graph that the transitive reduction took out.
reduced_away == OrderedEdgeSet(aedges) \ EdgeSet(reduced)

\* C29: in the levels returned, counted from the top, every edge (u, v) of the
\* acyclic graph before reduction, the edges the reduction took out included,
\* has v on a level strictly below the level of u, for every node-count budget
\* and glyph budget that lets the assignment return.
C29_AllEdgesPointDown ==
    pc = "levelled"
    => \A e \in OrderedEdgeSet(aedges) :
          /\ e[1] \in UNION {Range(levels[i]) : i \in DOMAIN levels}
          /\ e[2] \in UNION {Range(levels[i]) : i \in DOMAIN levels}
          /\ level_index(e[1]) < level_index(e[2])

\* Levels under a node budget of one and a finite glyph budget for a graph
\* with an edge that the reduction took out: the edge runs from the top level
\* to the bottom level, across the level between them.
C29_Witness ==
    /\ pc = "levelled"
    /\ config.max_per_layer = 1
    /\ config.max_glyphs_per_layer < UsizeMax
    /\ \E e \in reduced_away :
          /\ level_index(e[1]) = 1
          /\ level_index(e[2]) = Len(levels)
          /\ Len(levels) = 3

\* ------------------------------------------------------------------ user nodes first

\* Whether every level of the level assignment is within the glyph budget.
respected ==
    \A i \in DOMAIN levels : glyph_width_of(levels[i], node_names) <= config.max_glyphs_per_layer

====
